---- MODULE Spec2Model ----
(***************************************************************************)
(* Memory store (UnifiedMemory), consolidation engine (DreamingEngine),    *)
(* the generation client (LMStudioClient.chat) and the MCP tool server's   *)
(* save_memory, modelled as one state machine.                             *)
(*                                                                         *)
(* Text is a sequence of one-character strings, so that strip, startswith, *)
(* substring containment, lower-casing and line splitting are computed as  *)
(* the code computes them.  Characters of the Japanese scripts are written *)
(* as named atoms ("ka1", "kj1", ...).                                     *)
(***************************************************************************)
EXTENDS Integers, Sequences, FiniteSets, TLC

(***************************************************************************)
(* Bounds of the model                                                     *)
(***************************************************************************)
\* highest value the wall clock reaches
MaxClock == 1
\* most records the live index holds before a caller-issued save is no longer taken
MaxLive == 2
\* most live records at which the application still saves while the consolidation engine runs
MaxSaved == 1
\* most entries the memory archive log holds before archive_memories is no longer taken
MaxArchive == 1
\* most completed consolidation cycles
MaxDreams == 1
\* longest id or index list handed to a batch operation
MaxBatch == 2
\* most feedback entries submitted in the consolidation specification
MaxFeedback == 1
\* most feedback entries submitted in the feedback specification
MaxFeedbackLong == 11
\* most lines in a generated text
MaxLines == 3

(***************************************************************************)
(* Text helpers (Python str semantics)                                     *)
(***************************************************************************)
Whitespace == {" ", "\n", "\t"}

RECURSIVE LStrip(_)
LStrip(s) ==
    IF s = <<>> THEN s
    ELSE IF Head(s) \in Whitespace THEN LStrip(Tail(s)) ELSE s

RECURSIVE RStrip(_)
RStrip(s) ==
    IF s = <<>> THEN s
    ELSE IF s[Len(s)] \in Whitespace THEN RStrip(SubSeq(s, 1, Len(s) - 1)) ELSE s

\* str.strip()
Strip(s) == RStrip(LStrip(s))

\* str.startswith(p)
StartsWith(s, p) == Len(s) >= Len(p) /\ SubSeq(s, 1, Len(p)) = p

\* sub in s
Contains(s, sub) ==
    \E i \in 1..(Len(s) - Len(sub) + 1) : SubSeq(s, i, i + Len(sub) - 1) = sub

\* the slice [:n] left out
PrefixWhole(s, n) == s

\* s[:n]
Prefix(s, n) == SubSeq(s, 1, IF Len(s) < n THEN Len(s) ELSE n)

\* s.index(c): position (1-based) of the first occurrence of character c at or
\* after position i, 0 if none
IndexOfFrom(s, c, i) ==
    LET hits == { k \in i..Len(s) : s[k] = c }
    IN IF hits = {} THEN 0 ELSE CHOOSE k \in hits : \A m \in hits : k <= m

IndexOf(s, c) == IndexOfFrom(s, c, 1)

\* s.split("\n")
RECURSIVE SplitLines(_)
SplitLines(s) ==
    LET k == IndexOf(s, "\n")
    IN IF k = 0 THEN <<s>>
       ELSE <<SubSeq(s, 1, k - 1)>> \o SplitLines(SubSeq(s, k + 1, Len(s)))

LatinLower == <<"a", "b", "c", "d", "e", "f", "g", "h", "i", "j", "k", "l", "m",
                "n", "o", "p", "q", "r", "s", "t", "u", "v", "w", "x", "y", "z">>
LatinUpper == <<"A", "B", "C", "D", "E", "F", "G", "H", "I", "J", "K", "L", "M",
                "N", "O", "P", "Q", "R", "S", "T", "U", "V", "W", "X", "Y", "Z">>

LowerChar(c) ==
    IF \E k \in 1..26 : LatinUpper[k] = c
    THEN LatinLower[CHOOSE k \in 1..26 : LatinUpper[k] = c]
    ELSE c

\* str.lower()
Lower(s) == [i \in 1..Len(s) |-> LowerChar(s[i])]

UpperChar(c) ==
    IF \E k \in 1..26 : LatinLower[k] = c
    THEN LatinUpper[CHOOSE k \in 1..26 : LatinLower[k] = c]
    ELSE c

\* str.upper()
Upper(s) == [i \in 1..Len(s) |-> UpperChar(s[i])]

\* str.endswith(p)
EndsWith(s, p) == Len(s) >= Len(p) /\ SubSeq(s, Len(s) - Len(p) + 1, Len(s)) = p

\* s.find(sub) + 1: position of the first occurrence of sub in s, 0 if none
Find(s, sub) ==
    LET hits == { i \in 1..(Len(s) - Len(sub) + 1) : SubSeq(s, i, i + Len(sub) - 1) = sub }
    IN IF hits = {} THEN 0 ELSE CHOOSE i \in hits : \A m \in hits : i <= m

(***************************************************************************)
(* Categories                                                              *)
(***************************************************************************)
Chat == <<"c", "h", "a", "t">>
Dream == <<"d", "r", "e", "a", "m">>
Observation == <<"o", "b", "s", "e", "r", "v", "a", "t", "i", "o", "n">>
Exchange == <<"e", "x", "c", "h", "a", "n", "g", "e">>
Voluntary == <<"v", "o", "l", "u", "n", "t", "a", "r", "y">>
Insight == <<"i", "n", "s", "i", "g", "h", "t">>

\* engine/memory.py CATEGORIES
CATEGORIES == {Chat, Dream, Observation}

\* mcp_server/memory_tools.py CATEGORIES
McpCATEGORIES == {Chat, Dream, Observation, Exchange}

(***************************************************************************)
(* Keyword extractor                                                       *)
(***************************************************************************)
Katakana == {"ka1", "ka2"}
Hiragana == {"hi1"}
Kanji == {"kj1", "kj2"}
Latin == { LatinLower[k] : k \in 1..26 } \cup { LatinUpper[k] : k \in 1..26 }
Digits == {"0", "1", "2", "5"}
\* \w of a Python str pattern
WordChars == Latin \cup Digits \cup Katakana \cup Hiragana \cup Kanji \cup {"_"}

\* re.findall of [class]{minLen,}: the maximal runs of class characters of
\* length at least minLen
Runs(s, class, minLen) ==
    LET starts == { i \in 1..Len(s) : s[i] \in class /\ (i = 1 \/ s[i - 1] \notin class) }
        ends == { j \in 1..Len(s) : s[j] \in class /\ (j = Len(s) \/ s[j + 1] \notin class) }
    IN { SubSeq(s, p[1], p[2]) : p \in
           { q \in starts \X ends :
               /\ q[1] <= q[2]
               /\ q[2] - q[1] + 1 >= minLen
               /\ \A k \in q[1]..q[2] : s[k] \in class } }

\* re.findall of [\w]+\d+[\w]*|[\d]+[\w]+: the maximal runs of word characters
\* of length at least 2 that hold a digit
WithNumbers(s) ==
    { r \in Runs(s, WordChars, 2) : \E k \in 1..Len(r) : r[k] \in Digits }

\* the set built by extract_keywords before it is turned into a list
KeywordSet(content) ==
    Runs(content, Katakana, 2)
        \cup Runs(content, Kanji, 2)
        \cup { Lower(w) : w \in Runs(content, Latin, 3) }
        \cup Runs(content, Hiragana \cup Kanji, 2)
        \cup WithNumbers(content)

\* extract_keywords caps its result at 20 tokens
KeywordCap == 20

RECURSIVE Perms(_)
Perms(S) ==
    IF S = {} THEN { <<>> }
    ELSE UNION { { <<x>> \o p : p \in Perms(S \ {x}) } : x \in S }

\* extract_keywords: list(keywords)[:20]; the order of a Python set of str is
\* not fixed, so every order is a possible result
extract_keywords(content) ==
    { Prefix(p, KeywordCap) : p \in Perms(KeywordSet(content)) }

\* ",".join(keywords)
RECURSIVE Join(_)
Join(kws) ==
    IF kws = <<>> THEN <<>>
    ELSE IF Len(kws) = 1 THEN kws[1]
    ELSE kws[1] \o <<",">> \o Join(Tail(kws))

(***************************************************************************)
(* State                                                                   *)
(***************************************************************************)
VARIABLES
    now,              \* the wall clock read by datetime.now(), in ticks
    collection,       \* the live index (ChromaDB collection), in insertion order
    memory_archive,   \* memory_archive.jsonl
    feedback,         \* feedback.jsonl (pending feedback)
    feedback_archived,\* feedback.archived.jsonl
    insights,         \* insights.jsonl
    insights_archived,\* insights.archived.jsonl
    dream_archives,   \* dream_archives.jsonl (audit log)
    lora_dataset,     \* number of lines of lora_dream_dataset.jsonl
    fbClock,          \* number of feedback entries submitted so far
    pc,               \* per caller: where its dream() call stands
    export,           \* per caller: the export its dream() call took in step 1
    ret,              \* the operation that ran last and what it returned
    insight_cache,    \* _insight_cache of the application's UnifiedMemory
    cache_dirty,      \* _cache_dirty of the application's UnifiedMemory
    conversation_history \* conversation_history of the AwarenessEngine

vars == <<now, collection, memory_archive, feedback, feedback_archived, insights,
          insights_archived, dream_archives, lora_dataset, fbClock, pc, export, ret,
          insight_cache, cache_dirty, conversation_history>>

\* the callers that may invoke trigger_dream
Callers == {1, 2}

NoExport == [memories |-> <<>>, feedback |-> <<>>]

Init ==
    /\ now = 0
    /\ collection = <<>>
    /\ memory_archive = <<>>
    /\ feedback = <<>>
    /\ feedback_archived = <<>>
    /\ insights = <<>>
    /\ insights_archived = <<>>
    /\ dream_archives = <<>>
    /\ lora_dataset = 0
    /\ fbClock = 0
    /\ pc = [t \in Callers |-> "idle"]
    /\ export = [t \in Callers |-> NoExport]
    /\ ret = [op |-> "init"]
    /\ insight_cache = <<>>
    /\ cache_dirty = TRUE
    /\ conversation_history = <<>>

(***************************************************************************)
(* The live index                                                          *)
(***************************************************************************)
Ids(coll) == { coll[i].id : i \in 1..Len(coll) }

\* collection.add: a record whose id is already in the collection is ignored
CollectionAdd(coll, rec) ==
    IF rec.id \in Ids(coll) THEN coll ELSE Append(coll, rec)

\* collection.delete(ids=[mid])
CollectionDelete(coll, mid) == SelectSeq(coll, LAMBDA r : r.id # mid)

\* the readings datetime.now() can give after a reading c: time does not run
\* backwards, and may not have advanced by a whole tick
ClockReadings(c) == IF c < MaxClock THEN {c, c + 1} ELSE {c}

\* the record UnifiedMemory.save builds for a clock reading and keyword order
SaveCategory(category) == IF category \notin CATEGORIES THEN Chat ELSE category

SaveRecord(content, category, source, clk, kws) ==
    LET cat == SaveCategory(category)
    IN [ id |-> <<cat, clk>>,
         category |-> cat,
         content |-> Strip(content),
         keywords |-> Join(kws),
         source |-> source,
         created_at |-> clk ]

\* UnifiedMemory.save from a store state st = [coll, clk]: every outcome, one
\* per clock reading and keyword order; ok is FALSE when collection.add raises
SaveOutcomes(st, content, category, source) ==
    { [ coll |-> CollectionAdd(st.coll, SaveRecord(content, category, source, c, kws)),
        clk |-> c, ok |-> TRUE, id |-> <<SaveCategory(category), c>> ]
        : <<c, kws>> \in ClockReadings(st.clk) \X extract_keywords(content) }
    \cup
    { [ coll |-> st.coll, clk |-> c, ok |-> FALSE, id |-> <<>> ] : c \in ClockReadings(st.clk) }

\* which calls on the vector index raise in a loop of n calls: none, or one of them
Failures(n) == { [i \in 1..n |-> i = k] : k \in 0..n }

\* lists of length 1..MaxBatch over S
Batches(S) == UNION { [1..n -> S] : n \in 1..MaxBatch }

\* what the caller passes as content
Contents == { <<" ", "a", "b", "c">> }

\* content that is empty or only whitespace, next to the usual one
SaveContents == Contents \cup { <<>>, <<" ">> }

\* what the caller passes as category ("bogus" is not a declared category)
Bogus == <<"b", "o", "g", "u", "s">>
CallerCategories == {Chat, Bogus}

\* UnifiedMemory.count(category)
count(coll, category) ==
    IF category # <<>>
    THEN Cardinality({ i \in 1..Len(coll) : coll[i].category = category })
    ELSE Len(coll)

(***************************************************************************)
(* UnifiedMemory.save, called by the application                           *)
(***************************************************************************)
Save(content, category) ==
    /\ Len(collection) < MaxLive
    /\ \E o \in SaveOutcomes([coll |-> collection, clk |-> now], content, category, "") :
          /\ collection' = o.coll
          /\ now' = o.clk
          /\ ret' = [op |-> "save", raised |-> ~o.ok, id |-> o.id]
    /\ UNCHANGED <<memory_archive, feedback, feedback_archived, insights,
                   insights_archived, dream_archives, lora_dataset, fbClock, pc, export>>
    /\ UNCHANGED <<insight_cache, cache_dirty, conversation_history>>

\* doc_metadata.update(metadata): a key of the metadata argument replaces the
\* field save has just computed; the id is not part of the metadata
MetadataUpdate(rec, metadata) ==
    [ k \in DOMAIN rec |->
        IF k # "id" /\ k \in DOMAIN metadata THEN metadata[k] ELSE rec[k] ]

\* metadata arguments: the source mark the engine's callers pass, and a
\* dictionary that names a category
Metadatas == { [source |-> "response"], [category |-> Bogus] }

\* UnifiedMemory.save called with a metadata argument
SaveWithMetadata(content, category, metadata) ==
    /\ Len(collection) < MaxLive
    /\ \E c \in ClockReadings(now) :
          /\ now' = c
          /\ \/ \E kws \in extract_keywords(content) :
                   /\ collection' = CollectionAdd(collection,
                          MetadataUpdate(SaveRecord(content, category, "", c, kws), metadata))
                   /\ ret' = [op |-> "save", raised |-> FALSE,
                              id |-> <<SaveCategory(category), c>>]
             \/ /\ collection' = collection
                /\ ret' = [op |-> "save", raised |-> TRUE, id |-> <<>>]
    /\ UNCHANGED <<memory_archive, feedback, feedback_archived, insights,
                   insights_archived, dream_archives, lora_dataset, fbClock, pc, export>>
    /\ UNCHANGED <<insight_cache, cache_dirty, conversation_history>>

(***************************************************************************)
(* save_memory of the MCP tool server, on the same collection              *)
(***************************************************************************)
\* the "[余韻] " prefix save_memory puts before the content
YoinPrefix == <<"[", "kj1", "kj2", "]", " ">>

McpSaveRecord(content, category, clk, kws) ==
    LET cat == IF category \notin McpCATEGORIES THEN Chat ELSE category
    IN [ id |-> <<cat, clk>>,
         category |-> cat,
         content |-> YoinPrefix \o Strip(content),
         keywords |-> Join(kws),
         source |-> "mcp_tool",
         created_at |-> clk ]

\* empty content is answered with an error result; a raising collection.add
\* is caught and answered with an error result as well
McpSaveMemory(content, category) ==
    /\ Len(collection) < MaxLive
    /\ IF Strip(content) = <<>>
       THEN /\ ret' = [op |-> "save_memory", status |-> "error", id |-> <<>>]
            /\ UNCHANGED <<collection, now>>
       ELSE \E c \in ClockReadings(now) :
               /\ now' = c
               /\ \/ \E kws \in extract_keywords(content) :
                        /\ collection' = CollectionAdd(collection,
                                             McpSaveRecord(content, category, c, kws))
                        /\ ret' = [ op |-> "save_memory", status |-> "ok",
                                    id |-> McpSaveRecord(content, category, c, kws).id ]
                  \/ /\ collection' = collection
                     /\ ret' = [op |-> "save_memory", status |-> "error", id |-> <<>>]
    /\ UNCHANGED <<memory_archive, feedback, feedback_archived, insights,
                   insights_archived, dream_archives, lora_dataset, fbClock, pc, export>>
    /\ UNCHANGED <<insight_cache, cache_dirty, conversation_history>>

(***************************************************************************)
(* Feedback                                                                *)
(***************************************************************************)
\* get_feedback(limit=10): the last 10 entries of the pending log
FeedbackLimit == 10

get_feedback(fb) ==
    IF Len(fb) <= FeedbackLimit THEN fb
    ELSE SubSeq(fb, Len(fb) - FeedbackLimit + 1, Len(fb))

\* UnifiedMemory.save_feedback; an entry is identified by its submission number
save_feedback(bound) ==
    /\ fbClock < bound
    /\ fbClock' = fbClock + 1
    /\ feedback' = Append(feedback, fbClock + 1)
    /\ ret' = [op |-> "save_feedback", ok |-> TRUE]
    /\ UNCHANGED <<now, collection, memory_archive, feedback_archived, insights,
                   insights_archived, dream_archives, lora_dataset, pc, export>>
    /\ UNCHANGED <<insight_cache, cache_dirty, conversation_history>>

\* UnifiedMemory.archive_feedback on st = [fb, fba]: archives what get_feedback
\* returns, then empties the pending log
archive_feedback(st) ==
    IF get_feedback(st.fb) = <<>>
    THEN [fb |-> st.fb, fba |-> st.fba, n |-> 0]
    ELSE [fb |-> <<>>, fba |-> st.fba \o get_feedback(st.fb), n |-> Len(get_feedback(st.fb))]

(***************************************************************************)
(* Archive, restore, purge, delete                                         *)
(***************************************************************************)
ArchiveEntry(r) ==
    [ id |-> r.id, content |-> r.content, category |-> r.category,
      keywords |-> r.keywords, created_at |-> r.created_at, source |-> r.source ]

\* one try block around the whole loop: the first id that fails ends the batch
ArchiveLoopFirstFailureEnds(st, ids, fails) ==
    LET F[i \in 0..Len(ids)] ==
            IF i = 0 THEN [st |-> st, ended |-> FALSE]
            ELSE LET p == F[i - 1]
                     mid == ids[i]
                     found == SelectSeq(p.st.coll, LAMBDA r : r.id = mid)
                 IN IF p.ended THEN p
                    ELSE IF found = <<>>
                    THEN [st |-> [p.st EXCEPT !.failed = Append(@, mid)], ended |-> TRUE]
                    ELSE IF fails[i]
                    THEN [st |-> [p.st EXCEPT !.arch = Append(@, ArchiveEntry(found[1])),
                                              !.failed = Append(@, mid)],
                          ended |-> TRUE]
                    ELSE [st |-> [p.st EXCEPT !.arch = Append(@, ArchiveEntry(found[1])),
                                              !.coll = CollectionDelete(@, mid),
                                              !.archived = @ + 1],
                          ended |-> FALSE]
    IN F[Len(ids)].st

\* the two writes in the other order: the record leaves the live index
\* first, and the call that raises is the append to the archive log
ArchiveLoopDeletesFirst(st, ids, fails) ==
    LET F[i \in 0..Len(ids)] ==
            IF i = 0 THEN st
            ELSE LET mid == ids[i]
                     found == SelectSeq(F[i - 1].coll, LAMBDA r : r.id = mid)
                 IN IF found = <<>>
                    THEN [F[i - 1] EXCEPT !.failed = Append(@, mid)]
                    ELSE IF fails[i]
                    THEN [F[i - 1] EXCEPT !.coll = CollectionDelete(@, mid),
                                          !.failed = Append(@, mid)]
                    ELSE [F[i - 1] EXCEPT !.arch = Append(@, ArchiveEntry(found[1])),
                                          !.coll = CollectionDelete(@, mid),
                                          !.archived = @ + 1]
    IN F[Len(ids)]

\* the loop of archive_memories over ids; fails[i] says that collection.delete
\* raised for the i-th id. st = [coll, arch, archived, failed]
RECURSIVE ArchiveLoop(_, _, _)
ArchiveLoop(st, ids, fails) ==
    IF ids = <<>> THEN st
    ELSE LET mid == Head(ids)
             found == SelectSeq(st.coll, LAMBDA r : r.id = mid)
             next ==
                 IF found = <<>>
                 THEN [st EXCEPT !.failed = Append(@, mid)]
                 ELSE IF Head(fails)
                 THEN [st EXCEPT !.arch = Append(@, ArchiveEntry(found[1])),
                                 !.failed = Append(@, mid)]
                 ELSE [st EXCEPT !.arch = Append(@, ArchiveEntry(found[1])),
                                 !.coll = CollectionDelete(@, mid),
                                 !.archived = @ + 1]
         IN ArchiveLoop(next, Tail(ids), Tail(fails))

archive_memories(coll, arch, ids, fails) ==
    ArchiveLoop([coll |-> coll, arch |-> arch, archived |-> 0, failed |-> <<>>], ids, fails)

ArchivedIds(arch) == { arch[i].id : i \in 1..Len(arch) }

ArchiveMemories(ids, fails) ==
    /\ LET r == archive_memories(collection, memory_archive, ids, fails)
       IN /\ Len(r.arch) <= MaxArchive
          /\ collection' = r.coll
          /\ memory_archive' = r.arch
          /\ ret' = [ op |-> "archive_memories", ids |-> ids, fails |-> fails,
                      archived_count |-> r.archived, failed |-> r.failed ]
    /\ UNCHANGED <<now, feedback, feedback_archived, insights, insights_archived,
                   dream_archives, lora_dataset, fbClock, pc, export>>
    /\ UNCHANGED <<insight_cache, cache_dirty, conversation_history>>

\* _remove_archive_entries: the entries whose 0-based index is not in indices
remove_archive_entries(arch, indices) ==
    LET keep == { i \in 1..Len(arch) : (i - 1) \notin indices }
        F[i \in 0..Len(arch)] ==
            IF i = 0 THEN <<>>
            ELSE IF i \in keep THEN Append(F[i - 1], arch[i]) ELSE F[i - 1]
    IN F[Len(arch)]

\* indices_to_remove.add(idx) moved out of the try block: an entry whose
\* re-save raised is removed from the archive log as well
RECURSIVE RestoreLoopRemovesTried(_, _, _, _)
RestoreLoopRemovesTried(st, arch, indices, fails) ==
    IF indices = <<>> THEN {st}
    ELSE LET idx == Head(indices)
         IN IF idx < 0 \/ idx >= Len(arch)
            THEN RestoreLoopRemovesTried([st EXCEPT !.failed = Append(@, idx)],
                                         arch, Tail(indices), Tail(fails))
            ELSE UNION {
                   RestoreLoopRemovesTried(
                     IF o.ok
                     THEN [st EXCEPT !.coll = o.coll, !.clk = o.clk,
                                     !.restored = @ + 1, !.remove = @ \cup {idx}]
                     ELSE [st EXCEPT !.clk = o.clk, !.failed = Append(@, idx),
                                     !.remove = @ \cup {idx}],
                     arch, Tail(indices), Tail(fails))
                   : o \in { x \in SaveOutcomes([coll |-> st.coll, clk |-> st.clk],
                                                arch[idx + 1].content,
                                                arch[idx + 1].category,
                                                arch[idx + 1].source) :
                             x.ok = ~Head(fails) } }

\* the loop of restore_memories over indices; fails[i] says that save raised
\* for the i-th index. st = [coll, clk, restored, failed, remove]
RECURSIVE RestoreLoop(_, _, _, _)
RestoreLoop(st, arch, indices, fails) ==
    IF indices = <<>> THEN {st}
    ELSE LET idx == Head(indices)
         IN IF idx < 0 \/ idx >= Len(arch)
            THEN RestoreLoop([st EXCEPT !.failed = Append(@, idx)],
                             arch, Tail(indices), Tail(fails))
            ELSE UNION {
                   RestoreLoop(
                     IF o.ok
                     THEN [st EXCEPT !.coll = o.coll, !.clk = o.clk,
                                     !.restored = @ + 1, !.remove = @ \cup {idx}]
                     ELSE [st EXCEPT !.clk = o.clk, !.failed = Append(@, idx)],
                     arch, Tail(indices), Tail(fails))
                   : o \in { x \in SaveOutcomes([coll |-> st.coll, clk |-> st.clk],
                                                arch[idx + 1].content,
                                                arch[idx + 1].category,
                                                arch[idx + 1].source) :
                             x.ok = ~Head(fails) } }

restore_memories(coll, clk, arch, indices, fails) ==
    { [ coll |-> st.coll, clk |-> st.clk, restored |-> st.restored,
        failed |-> st.failed,
        arch |-> IF st.remove = {} THEN arch ELSE remove_archive_entries(arch, st.remove) ]
      : st \in RestoreLoop([coll |-> coll, clk |-> clk, restored |-> 0,
                            failed |-> <<>>, remove |-> {}], arch, indices, fails) }

RestoreMemories(indices, fails) ==
    /\ Len(collection) < MaxLive
    /\ \E r \in restore_memories(collection, now, memory_archive, indices, fails) :
          /\ collection' = r.coll
          /\ now' = r.clk
          /\ memory_archive' = r.arch
          /\ ret' = [ op |-> "restore_memories", indices |-> indices, fails |-> fails,
                      restored_count |-> r.restored, failed |-> r.failed ]
    /\ UNCHANGED <<feedback, feedback_archived, insights, insights_archived,
                   dream_archives, lora_dataset, fbClock, pc, export>>
    /\ UNCHANGED <<insight_cache, cache_dirty, conversation_history>>

DeleteArchivedMemories(indices) ==
    /\ memory_archive # <<>>
    /\ LET set == { indices[i] : i \in 1..Len(indices) }
       IN /\ memory_archive' = remove_archive_entries(memory_archive, set)
          /\ ret' = [op |-> "delete_archived_memories", deleted_count |-> Cardinality(set)]
    /\ UNCHANGED <<now, collection, feedback, feedback_archived, insights,
                   insights_archived, dream_archives, lora_dataset, fbClock, pc, export>>
    /\ UNCHANGED <<insight_cache, cache_dirty, conversation_history>>

\* one try block around the whole loop: the first delete that raises ends
\* the batch and the ids after it are counted as failed
BatchDeleteLoopFirstFailureEnds(st, ids, fails) ==
    LET F[i \in 0..Len(ids)] ==
            IF i = 0 THEN [st |-> st, ended |-> FALSE]
            ELSE LET p == F[i - 1]
                 IN IF p.ended \/ fails[i]
                    THEN [st |-> [p.st EXCEPT !.failed = @ + 1], ended |-> TRUE]
                    ELSE [st |-> [p.st EXCEPT !.coll = CollectionDelete(@, ids[i]),
                                              !.deleted = @ + 1],
                          ended |-> FALSE]
    IN F[Len(ids)].st

\* the loop of batch_delete; fails[i] says that collection.delete raised for
\* the i-th id. st = [coll, deleted, failed]
RECURSIVE BatchDeleteLoop(_, _, _)
BatchDeleteLoop(st, ids, fails) ==
    IF ids = <<>> THEN st
    ELSE BatchDeleteLoop(
           IF Head(fails)
           THEN [st EXCEPT !.failed = @ + 1]
           ELSE [st EXCEPT !.coll = CollectionDelete(@, Head(ids)), !.deleted = @ + 1],
           Tail(ids), Tail(fails))

\* a sweep that deletes every record live at the time it runs, whatever ids
\* it was handed
batch_deleteEveryLiveRecord(coll, ids, fails) ==
    [coll |-> <<>>, deleted |-> Len(coll), failed |-> 0]

batch_delete(coll, ids, fails) ==
    BatchDeleteLoop([coll |-> coll, deleted |-> 0, failed |-> 0], ids, fails)

BatchDelete(ids, fails) ==
    /\ LET r == batch_delete(collection, ids, fails)
       IN /\ collection' = r.coll
          /\ ret' = [ op |-> "batch_delete", ids |-> ids, fails |-> fails,
                      deleted_count |-> r.deleted, failed_count |-> r.failed ]
    /\ UNCHANGED <<now, memory_archive, feedback, feedback_archived, insights,
                   insights_archived, dream_archives, lora_dataset, fbClock, pc, export>>
    /\ UNCHANGED <<insight_cache, cache_dirty, conversation_history>>

(***************************************************************************)
(* Reset                                                                   *)
(***************************************************************************)
ResetAll ==
    /\ collection' = <<>>
    /\ insights' = <<>>
    /\ feedback' = <<>>
    /\ ret' = [ op |-> "reset_all", chromadb_deleted |-> Len(collection),
                insights_deleted |-> Len(insights), feedback_deleted |-> Len(feedback) ]
    /\ UNCHANGED <<now, memory_archive, feedback_archived, insights_archived,
                   dream_archives, lora_dataset, fbClock, pc, export>>
    /\ cache_dirty' = TRUE
    /\ UNCHANGED <<insight_cache, conversation_history>>

ResetEverything ==
    /\ collection' = <<>>
    /\ insights' = <<>>
    /\ feedback' = <<>>
    /\ memory_archive' = <<>>
    /\ dream_archives' = <<>>
    /\ insights_archived' = <<>>
    /\ feedback_archived' = <<>>
    /\ lora_dataset' = 0
    /\ ret' = [ op |-> "reset_everything", chromadb_deleted |-> Len(collection),
                memory_archive_deleted |-> Len(memory_archive) ]
    /\ UNCHANGED <<now, fbClock, pc, export>>
    /\ cache_dirty' = TRUE
    /\ UNCHANGED <<insight_cache, conversation_history>>

(***************************************************************************)
(* LMStudioClient.chat                                                     *)
(***************************************************************************)
ApiErrorText == <<"A", "P", "I", " ", "E", "r", "r", "o", "r", ":", " ", "5", "0", "0">>
TimedOutText == <<"R", "e", "q", "u", "e", "s", "t", " ", "t", "i", "m", "e", "d", " ",
                  "o", "u", "t">>
ErrorText == <<"E", "r", "r", "o", "r", ":", " ", "x">>
NoResponseText == <<"N", "o", " ", "r", "e", "s", "p", "o", "n", "s", "e">>

\* "\n".join(messages)
RECURSIVE JoinLines(_)
JoinLines(msgs) ==
    IF msgs = <<>> THEN <<>>
    ELSE IF Len(msgs) = 1 THEN msgs[1]
    ELSE msgs[1] \o <<"\n">> \o JoinLines(Tail(msgs))

\* what chat() returns as response_text for what the HTTP request did
chat(outcome) ==
    IF outcome.kind = "timeout" THEN TimedOutText
    ELSE IF outcome.kind = "exception" THEN ErrorText
    ELSE IF outcome.kind = "http_error" THEN ApiErrorText
    ELSE IF Strip(JoinLines(outcome.messages)) = <<>> THEN NoResponseText
    ELSE Strip(JoinLines(outcome.messages))

\* message items the generator may put in its output
MsgTagged == <<"[", "d", "r", "e", "a", "m", "]", " ", "a", "b", "c">>
MsgUnknownTag == <<"[", "x", "]", " ", "a", "b", "d">>

\* what the HTTP request of one chat() call can do
ChatOutcomes ==
    { [kind |-> "timeout"], [kind |-> "exception"], [kind |-> "http_error"] }
    \cup { [kind |-> "ok", messages |-> m] :
             m \in { <<>>, <<MsgUnknownTag, MsgTagged>> } }

(***************************************************************************)
(* DreamingEngine                                                          *)
(***************************************************************************)
\* _parse_categorized_insights on the lines of the response
RECURSIVE ParseLines(_)
ParseLines(lines) ==
    IF lines = <<>> THEN <<>>
    ELSE LET line == Strip(Head(lines))
             bracket_end == IndexOf(line, "]")
             category == Strip(SubSeq(line, 2, bracket_end - 1))
             content == Strip(SubSeq(line, bracket_end + 1, Len(line)))
         IN IF /\ Len(line) >= 5
               /\ Head(line) = "["
               /\ bracket_end > 0
               /\ category # <<>>
               /\ content # <<>>
            THEN <<[category |-> category, content |-> content]>> \o ParseLines(Tail(lines))
            ELSE ParseLines(Tail(lines))

parse_categorized_insights(response) == ParseLines(SplitLines(Strip(response)))

\* longest raw response stored as the fallback insight
FallbackMaxLen == 500


\* dream() with a failure test that knows only the "Error" prefix
DreamResponseFailedErrorOnly(response) ==
    \/ response = <<>>
    \/ StartsWith(response, <<"E", "r", "r", "o", "r">>)

\* the test dream() makes on the response before it changes anything
DreamResponseFailed(response) ==
    \/ response = <<>>
    \/ StartsWith(response, <<"E", "r", "r", "o", "r">>)
    \/ StartsWith(response, <<"A", "P", "I", " ", "E", "r", "r", "o", "r">>)

\* export_for_dreaming: every live record and the last 10 pending feedback entries
export_for_dreaming(coll, fb) ==
    [ memories |-> [ i \in 1..Len(coll) |->
                       [ id |-> coll[i].id, content |-> coll[i].content,
                         category |-> coll[i].category, keywords |-> coll[i].keywords,
                         created_at |-> coll[i].created_at ] ],
      feedback |-> get_feedback(fb) ]

\* the loop of dream() that saves the parsed insights: every final [coll, clk]
RECURSIVE SaveInsights(_, _)
SaveInsights(st, parsed) ==
    IF parsed = <<>> THEN {st}
    ELSE UNION { SaveInsights([coll |-> o.coll, clk |-> o.clk], Tail(parsed))
                 : o \in SaveOutcomes(st, Head(parsed).content, Head(parsed).category,
                                      "dreaming") }

\* export.get("insights", []): the prior insights dream() renders into its request
prev_insights(e) == IF "insights" \in DOMAIN e THEN e.insights ELSE <<>>

\* the skip test with the second "not" left out
NothingToProcessFeedbackOnly(e) == e.memories = <<>> /\ e.feedback # <<>>

\* the test dream() makes on its export before anything else: nothing to process
NothingToProcess(e) == e.memories = <<>> /\ e.feedback = <<>>

\* step 1 of dream(): export; nothing to process ends the call as skipped
DreamExport(t) ==
    /\ pc[t] = "idle"
    /\ LET e == export_for_dreaming(collection, feedback)
       IN IF NothingToProcess(e)
          THEN /\ ret' = [op |-> "dream", caller |-> t, status |-> "skipped"]
               /\ UNCHANGED <<pc, export>>
          ELSE /\ pc' = [pc EXCEPT ![t] = "calling"]
               /\ export' = [export EXCEPT ![t] = e]
               /\ ret' = [op |-> "export_for_dreaming", caller |-> t]
    /\ UNCHANGED <<now, collection, memory_archive, feedback, feedback_archived, insights,
                   insights_archived, dream_archives, lora_dataset, fbClock>>
    /\ UNCHANGED <<insight_cache, cache_dirty, conversation_history>>

\* the rest of dream(): the chat() call returns and the cycle fails or completes
DreamFinish(t, outcome) ==
    /\ pc[t] = "calling"
    /\ pc' = [pc EXCEPT ![t] = "idle"]
    /\ export' = [export EXCEPT ![t] = NoExport]
    /\ LET response == chat(outcome)
           memories == export[t].memories
           feedbacks == export[t].feedback
       IN IF DreamResponseFailed(response)
          THEN /\ ret' = [ op |-> "dream", caller |-> t, status |-> "failed",
                           outcome |-> outcome ]
               /\ UNCHANGED <<now, collection, memory_archive, feedback, feedback_archived,
                              insights, insights_archived, dream_archives, lora_dataset,
                              fbClock, insight_cache, cache_dirty,
                              conversation_history>>
          ELSE LET found == parse_categorized_insights(response)
                   parsed == IF found = <<>>
                             THEN << [ category |-> Insight,
                                       content |-> Prefix(Strip(response), FallbackMaxLen) ] >>
                             ELSE found
                   memory_ids == SelectSeq(memories, LAMBDA m : m.category # Voluntary)
                   fa == archive_feedback([fb |-> feedback, fba |-> feedback_archived])
               IN /\ Len(dream_archives) < MaxDreams
                  /\ insights_archived' = insights_archived \o insights
                  /\ insights' = [ i \in 1..Len(parsed) |->
                                     [ category |-> parsed[i].category,
                                       insight |-> parsed[i].content,
                                       source |-> "dreaming" ] ]
                  /\ feedback' = fa.fb
                  /\ feedback_archived' = fa.fba
                  /\ \E s \in SaveInsights([coll |-> collection, clk |-> now], parsed),
                        fails \in Failures(Len(memory_ids)) :
                        LET d == batch_delete(s.coll,
                                              [i \in 1..Len(memory_ids) |-> memory_ids[i].id],
                                              fails)
                        IN /\ collection' = d.coll
                           /\ now' = s.clk
                           /\ ret' = [ op |-> "dream", caller |-> t,
                                       status |-> "completed",
                                       outcome |-> outcome,
                                       memories_processed |-> Len(memories),
                                       memories_deleted |-> d.deleted,
                                       feedbacks_used |-> Len(feedbacks),
                                       feedbacks_archived |-> fa.n,
                                       insights_generated |-> Len(parsed) ]
                  /\ dream_archives' = Append(dream_archives,
                                              [ memories_processed |-> Len(memories),
                                                feedbacks_used |-> Len(feedbacks),
                                                previous_insights_used |-> Len(prev_insights(export[t])),
                                                insights_generated |-> Len(parsed) ])
                  /\ lora_dataset' = lora_dataset + 1
                  /\ cache_dirty' = TRUE
                  /\ UNCHANGED <<memory_archive, fbClock, insight_cache, conversation_history>>

(***************************************************************************)
(* ResponseParser.parse                                                    *)
(***************************************************************************)
INSIGHT_HEADER == <<"#", "#", " ", "kj1", "hi1", "hi2">>
SAVE_MARKER == <<"[", "S", "A", "V", "E", "]">>
SEPARATOR == <<"-", "-", "-">>

\* shortest line kept as an insight has more than this many characters
InsightNoiseLen == 5

\* the list marker "- " or "* " taken off a stripped line
RemoveListMarker(line) ==
    IF StartsWith(line, <<"-", " ">>) \/ StartsWith(line, <<"*", " ">>)
    THEN Strip(SubSeq(line, 3, Len(line)))
    ELSE line

\* the loop over the lines of the insight section; st = [insights, saves]
ParseInsightSection(lines) ==
    LET F[i \in 0..Len(lines)] ==
            IF i = 0 THEN [insights |-> <<>>, saves |-> <<>>]
            ELSE LET line == RemoveListMarker(Strip(lines[i]))
                     save_content == Strip(SubSeq(line, Len(SAVE_MARKER) + 1, Len(line)))
                 IN IF line = <<>> THEN F[i - 1]
                    ELSE IF StartsWith(Upper(line), SAVE_MARKER)
                    THEN IF save_content # <<>>
                         THEN [F[i - 1] EXCEPT !.saves = Append(@, save_content)]
                         ELSE F[i - 1]
                    ELSE IF Len(line) > InsightNoiseLen
                    THEN [F[i - 1] EXCEPT !.insights = Append(@, line)]
                    ELSE F[i - 1]
    IN F[Len(lines)]

\* ResponseParser.parse(raw_output): [response, insights, saves]
parse(raw_output) ==
    IF raw_output = <<>> \/ ~Contains(raw_output, INSIGHT_HEADER)
    THEN [response |-> raw_output, insights |-> <<>>, saves |-> <<>>]
    ELSE LET k == Find(raw_output, INSIGHT_HEADER)
             before == RStrip(SubSeq(raw_output, 1, k - 1))
             insight_section ==
                 SubSeq(raw_output, k + Len(INSIGHT_HEADER), Len(raw_output))
             section == ParseInsightSection(SplitLines(Strip(insight_section)))
         IN [ response |-> IF EndsWith(before, SEPARATOR)
                           THEN RStrip(SubSeq(before, 1, Len(before) - Len(SEPARATOR)))
                           ELSE before,
              insights |-> section.insights,
              saves |-> section.saves ]

\* lines the generator writes: text, a [SAVE] marker line, the separator,
\* the header of the insight section, an insight, a marker in lower case
\* behind a list marker
ParserLines ==
    { <<"o", "k">>,
      SAVE_MARKER \o <<" ", "a", "b">>,
      SEPARATOR,
      INSIGHT_HEADER,
      <<"-", " ", "a", "b", "c", "d", "e", "f">>,
      <<"-", " ", "[", "s", "a", "v", "e", "]", " ", "c", "d">> }

\* raw outputs of 1..MaxLines lines
RawOutputs ==
    { JoinLines(lines) : lines \in UNION { [1..n -> ParserLines] : n \in 1..MaxLines } }

\* the parse step of AwarenessEngine.send_message
Parse(raw_output) ==
    /\ LET parsed == parse(raw_output)
       IN ret' = [ op |-> "parse", raw |-> raw_output, response |-> parsed.response,
                   insights |-> parsed.insights, saves |-> parsed.saves ]
    /\ UNCHANGED <<now, collection, memory_archive, feedback, feedback_archived, insights,
                   insights_archived, dream_archives, lora_dataset, fbClock, pc, export>>
    /\ UNCHANGED <<insight_cache, cache_dirty, conversation_history>>

NextParse == \E raw_output \in RawOutputs : Parse(raw_output)

SpecParse == Init /\ [][NextParse]_vars

(***************************************************************************)
(* The insight parser of the consolidation engine on its own               *)
(***************************************************************************)
\* lines of a consolidation response: a tagged line, a bullet with a short
\* and with a long remainder, a numbered line, plain text
InsightLines ==
    { <<"[", "p", "]", " ", "a", "b", "c">>,
      <<"-", " ", "a", "b">>,
      <<"-", " ", "a", "b", "c", "d", "e">>,
      <<"1", ".", " ", "a", "b", "c", "d", "e">>,
      <<"a", "b", "c", "d", "e">> }

Responses ==
    { JoinLines(lines) : lines \in UNION { [1..n -> InsightLines] : n \in 1..MaxLines } }

\* DreamingEngine._parse_categorized_insights(response)
ParseCategorizedInsights(response) ==
    /\ ret' = [ op |-> "parse_categorized_insights", response |-> response,
                parsed |-> parse_categorized_insights(response) ]
    /\ UNCHANGED <<now, collection, memory_archive, feedback, feedback_archived, insights,
                   insights_archived, dream_archives, lora_dataset, fbClock, pc, export>>
    /\ UNCHANGED <<insight_cache, cache_dirty, conversation_history>>

NextInsightParser == \E response \in Responses : ParseCategorizedInsights(response)

SpecInsightParser == Init /\ [][NextInsightParser]_vars

(***************************************************************************)
(* The application and the tool server saving a text of two keywords       *)
(***************************************************************************)
KeywordContents == { <<"a", "b", "c", " ", "ka1", "ka2">> }

NextKeywords ==
    \/ \E content \in KeywordContents, category \in {Chat, Dream} : Save(content, category)
    \/ \E content \in KeywordContents, category \in {Chat, Dream} :
          McpSaveMemory(content, category)

SpecKeywords == Init /\ [][NextKeywords]_vars

(***************************************************************************)
(* Specification of the store and the consolidation engine                 *)
(***************************************************************************)
LiveOrArchivedIds == Ids(collection) \cup ArchivedIds(memory_archive)

Next ==
    \/ \E content \in Contents, category \in CallerCategories : Save(content, category)
    \/ \E content \in Contents, category \in {Chat, Exchange} : McpSaveMemory(content, category)
    \/ save_feedback(MaxFeedback)
    \/ \E ids \in Batches(LiveOrArchivedIds) :
          \E fails \in Failures(Len(ids)) : ArchiveMemories(ids, fails)
    \/ \E indices \in Batches(0..Len(memory_archive)) :
          \E fails \in Failures(Len(indices)) : RestoreMemories(indices, fails)
    \/ \E indices \in Batches(0..Len(memory_archive)) : DeleteArchivedMemories(indices)
    \/ \E ids \in Batches(LiveOrArchivedIds) :
          \E fails \in Failures(Len(ids)) : BatchDelete(ids, fails)
    \/ ResetAll
    \/ ResetEverything
    \/ DreamExport(1)
    \/ \E outcome \in ChatOutcomes : DreamFinish(1, outcome)

Spec == Init /\ [][Next]_vars

(***************************************************************************)
(* The consolidation engine with one caller                                *)
(***************************************************************************)
NextDream ==
    \/ \E content \in Contents : Len(collection) < MaxSaved /\ Save(content, Chat)
    \/ save_feedback(MaxFeedback)
    \/ DreamExport(1)
    \/ \E outcome \in ChatOutcomes : DreamFinish(1, outcome)

SpecDream == Init /\ [][NextDream]_vars

(***************************************************************************)
(* The consolidation engine with two callers of trigger_dream              *)
(***************************************************************************)
NextConcurrent ==
    \/ \E content \in Contents : Len(collection) < MaxSaved /\ Save(content, Chat)
    \/ \E t \in Callers : DreamExport(t)
    \/ \E t \in Callers, outcome \in ChatOutcomes : DreamFinish(t, outcome)

SpecConcurrent == Init /\ [][NextConcurrent]_vars

(***************************************************************************)
(* Feedback through consolidation cycles                                   *)
(***************************************************************************)
NextFeedback ==
    \/ save_feedback(MaxFeedbackLong)
    \/ DreamExport(1)
    \/ \E outcome \in ChatOutcomes : DreamFinish(1, outcome)

SpecFeedback == Init /\ [][NextFeedback]_vars

(***************************************************************************)
(* The memory store alone                                                  *)
(***************************************************************************)
NextStore ==
    \/ \E content \in Contents, category \in CallerCategories : Save(content, category)
    \/ \E content \in Contents, category \in {Chat, Exchange} : McpSaveMemory(content, category)
    \/ \E ids \in Batches(LiveOrArchivedIds) :
          \E fails \in Failures(Len(ids)) : ArchiveMemories(ids, fails)
    \/ \E indices \in Batches(0..Len(memory_archive)) :
          \E fails \in Failures(Len(indices)) : RestoreMemories(indices, fails)
    \/ \E indices \in Batches(0..Len(memory_archive)) : DeleteArchivedMemories(indices)
    \/ \E ids \in Batches(LiveOrArchivedIds) :
          \E fails \in Failures(Len(ids)) : BatchDelete(ids, fails)
    \/ ResetAll
    \/ ResetEverything

SpecStore == Init /\ [][NextStore]_vars

(***************************************************************************)
(* The consolidation engine on responses the parser finds nothing in       *)
(***************************************************************************)
\* a message item longer than the fallback insight may be, with no tag
(***************************************************************************)
(* The two save entry points alone, with every kind of content and         *)
(* category                                                                *)
(***************************************************************************)
NextSave ==
    \/ \E content \in SaveContents, category \in CallerCategories \cup {Dream} :
          Save(content, category)
    \/ \E content \in Contents, category \in CallerCategories, metadata \in Metadatas :
          SaveWithMetadata(content, category, metadata)
    \/ \E content \in SaveContents, category \in {Chat, Exchange, Bogus} :
          McpSaveMemory(content, category)

SpecSave == Init /\ [][NextSave]_vars

(***************************************************************************)
(* Saves and batch archiving alone; a batch may name an id that was never  *)
(* issued                                                                  *)
(***************************************************************************)
UnknownId == <<Bogus, 0>>

NextArchive ==
    \/ \E content \in Contents : Save(content, Chat)
    \/ \E ids \in Batches(Ids(collection) \cup {UnknownId}) :
          \E fails \in Failures(Len(ids)) : ArchiveMemories(ids, fails)

SpecArchive == Init /\ [][NextArchive]_vars

(***************************************************************************)
(* Saves, archiving and restoring alone; a restore may name an index below *)
(* 0 or past the end of the archive log                                    *)
(***************************************************************************)
NextRestore ==
    \/ \E content \in Contents : Len(collection) < MaxSaved /\ Save(content, Chat)
    \/ \E ids \in Batches(Ids(collection)) :
          ArchiveMemories(ids, [i \in 1..Len(ids) |-> FALSE])
    \/ /\ ret.op # "restore_memories"
       /\ \E indices \in Batches((0 - 1)..Len(memory_archive)) :
             \E fails \in Failures(Len(indices)) : RestoreMemories(indices, fails)

SpecRestore == Init /\ [][NextRestore]_vars

(***************************************************************************)
(* Saves, archiving and batch deletion alone                               *)
(***************************************************************************)
NextBatchDelete ==
    \/ \E content \in Contents : Save(content, Chat)
    \/ \E ids \in Batches(Ids(collection)) :
          ArchiveMemories(ids, [i \in 1..Len(ids) |-> FALSE])
    \/ \E ids \in Batches(Ids(collection) \cup {UnknownId}) :
          \E fails \in Failures(Len(ids)) : BatchDelete(ids, fails)

SpecBatchDelete == Init /\ [][NextBatchDelete]_vars

MsgLong == <<" ">> \o [i \in 1..FallbackMaxLen |-> "a"] \o <<"b", " ">>

FallbackOutcomes ==
    { [kind |-> "http_error"],
      [kind |-> "ok", messages |-> <<>>],
      [kind |-> "ok", messages |-> <<MsgLong>>],
      [kind |-> "ok", messages |-> <<MsgTagged>>] }

NextFallback ==
    \/ \E content \in Contents : Len(collection) < MaxSaved /\ Save(content, Chat)
    \/ save_feedback(MaxFeedback)
    \/ DreamExport(1)
    \/ \E outcome \in FallbackOutcomes : DreamFinish(1, outcome)

SpecFallback == Init /\ [][NextFallback]_vars

(***************************************************************************)
(* UnifiedMemory.search                                                    *)
(*                                                                         *)
(* Relevance and distance are counted in units of 1/10000.  A run of       *)
(* SpecSearch builds a store with save and then searches it; a search      *)
(* changes nothing in the store, so searching again from the state a       *)
(* search left reaches no state that searching once does not.              *)
(***************************************************************************)
One == 10000
\* the floor a semantic candidate must reach (0.3)
SemanticFloor == 3000
\* relevance of a category-only listing (0.8)
CategoryFilterRelevance == 8000
\* keyword pass: case-insensitive containment (0.9)
ScoreContainsLower == 9000
\* keyword pass: case-sensitive containment (0.85)
ScoreContains == 8500
\* keyword pass: the query is part of the cached keywords (0.85)
ScoreKeywordField == 8500
\* keyword pass: a keyword of the query is part of content or keywords (0.7)
ScoreQueryKeyword == 7000
\* most neighbours asked of the vector index
MaxNeighbours == 20
\* collection.get(limit=1000) of the keyword pass
KeywordScanLimit == 1000

Min(a, b) == IF a < b THEN a ELSE b
Max(a, b) == IF a > b THEN a ELSE b

\* round(relevance, 3): to the nearest multiple of 10 units, halves to even
Round3(x) ==
    LET q == x \div 10
        r == x % 10
    IN IF r < 5 THEN 10 * q
       ELSE IF r > 5 THEN 10 * (q + 1)
       ELSE IF q % 2 = 0 THEN 10 * q ELSE 10 * (q + 1)

SearchResult(r, relevance, match_type) ==
    [ id |-> r.id, content |-> r.content, category |-> r.category,
      keywords |-> r.keywords, relevance |-> relevance, match_type |-> match_type ]

\* the records a where-filter on category lets through
WhereCategory(coll, category) ==
    IF category = <<>> THEN coll ELSE SelectSeq(coll, LAMBDA r : r.category = category)

Record(coll, id) == coll[CHOOSE i \in 1..Len(coll) : coll[i].id = id]

\* the semantic pass with a strict floor: relevance > 0.3
RECURSIVE SemanticPassAboveFloor(_, _, _)
SemanticPassAboveFloor(st, coll, neighbours) ==
    IF neighbours = <<>> THEN st
    ELSE LET n == Head(neighbours)
             relevance == Max(0, One - n.distance)
         IN IF n.id \in st.seen
            THEN SemanticPassAboveFloor(st, coll, Tail(neighbours))
            ELSE SemanticPassAboveFloor(
                   [ seen |-> st.seen \cup {n.id},
                     results |-> IF relevance > SemanticFloor
                                 THEN Append(st.results,
                                             SearchResult(Record(coll, n.id),
                                                          Round3(relevance), "semantic"))
                                 ELSE st.results ],
                   coll, Tail(neighbours))

\* the semantic pass over the neighbours the index reported (a list of
\* [id, distance]); st = [results, seen]
RECURSIVE SemanticPass(_, _, _)
SemanticPass(st, coll, neighbours) ==
    IF neighbours = <<>> THEN st
    ELSE LET n == Head(neighbours)
             relevance == Max(0, One - n.distance)
         IN IF n.id \in st.seen
            THEN SemanticPass(st, coll, Tail(neighbours))
            ELSE SemanticPass(
                   [ seen |-> st.seen \cup {n.id},
                     results |-> IF relevance >= SemanticFloor
                                 THEN Append(st.results,
                                             SearchResult(Record(coll, n.id),
                                                          Round3(relevance), "semantic"))
                                 ELSE st.results ],
                   coll, Tail(neighbours))

\* the score the keyword pass gives one record
MatchScore(r, query) ==
    LET query_lower == Lower(query)
        doc_lower == Lower(r.content)
        doc_keywords == Lower(r.keywords)
        s1 == IF Contains(doc_lower, query_lower) THEN ScoreContainsLower
              ELSE IF Contains(r.content, query) THEN ScoreContains
              ELSE 0
        s2 == IF Contains(doc_keywords, query_lower) THEN Max(s1, ScoreKeywordField) ELSE s1
    IN IF \E kw \in KeywordSet(query) : Contains(doc_lower, kw) \/ Contains(doc_keywords, kw)
       THEN Max(s2, ScoreQueryKeyword)
       ELSE s2

\* the keyword pass without the test of seen_ids
RECURSIVE KeywordPassIgnoresSeen(_, _, _, _)
KeywordPassIgnoresSeen(st, docs, query, category) ==
    IF docs = <<>> THEN st
    ELSE LET r == Head(docs)
         IN IF \/ (category # <<>> /\ r.category # category)
               \/ MatchScore(r, query) = 0
            THEN KeywordPassIgnoresSeen(st, Tail(docs), query, category)
            ELSE KeywordPassIgnoresSeen(
                   [ seen |-> st.seen \cup {r.id},
                     results |-> Append(st.results,
                                        SearchResult(r, MatchScore(r, query), "keyword")) ],
                   Tail(docs), query, category)

\* the keyword pass over the scanned records; st = [results, seen]
RECURSIVE KeywordPass(_, _, _, _)
KeywordPass(st, docs, query, category) ==
    IF docs = <<>> THEN st
    ELSE LET r == Head(docs)
         IN IF \/ r.id \in st.seen
               \/ (category # <<>> /\ r.category # category)
               \/ MatchScore(r, query) = 0
            THEN KeywordPass(st, Tail(docs), query, category)
            ELSE KeywordPass(
                   [ seen |-> st.seen \cup {r.id},
                     results |-> Append(st.results,
                                        SearchResult(r, MatchScore(r, query), "keyword")) ],
                   Tail(docs), query, category)

\* results.sort(key=relevance, reverse=True): stable, non-increasing
\* a sort that is not stable: an entry goes before the entries of its relevance
RECURSIVE InsertBeforeEqual(_, _)
InsertBeforeEqual(sorted, x) ==
    IF sorted = <<>> THEN <<x>>
    ELSE IF Head(sorted).relevance > x.relevance
         THEN <<Head(sorted)>> \o InsertBeforeEqual(Tail(sorted), x)
         ELSE <<x>> \o sorted

RECURSIVE InsertByRelevance(_, _)
InsertByRelevance(sorted, x) ==
    IF sorted = <<>> THEN <<x>>
    ELSE IF Head(sorted).relevance >= x.relevance
         THEN <<Head(sorted)>> \o InsertByRelevance(Tail(sorted), x)
         ELSE <<x>> \o sorted

RECURSIVE SortByRelevance(_)
SortByRelevance(results) ==
    IF results = <<>> THEN <<>>
    ELSE InsertByRelevance(SortByRelevance(SubSeq(results, 1, Len(results) - 1)),
                           results[Len(results)])

\* one try block around both passes: a failing index call loses everything
searchOneTry(coll, query, limit, category, semantic, get_raised) ==
    IF get_raised \/ (Strip(query) # <<>> /\ semantic.raised) THEN <<>>
    ELSE IF category # <<>> /\ Strip(query) = <<>>
    THEN LET filtered == Prefix(WhereCategory(coll, category), limit)
         IN [ i \in 1..Len(filtered) |->
                SearchResult(filtered[i], CategoryFilterRelevance, "category_filter") ]
    ELSE IF Strip(query) = <<>> THEN <<>>
    ELSE LET s0 == [results |-> <<>>, seen |-> {}]
             s1 == SemanticPass(s0, coll, semantic.neighbours)
             s2 == KeywordPass(s1, Prefix(coll, KeywordScanLimit), query, category)
         IN Prefix(SortByRelevance(s2.results), limit)

\* search(query, limit, category); semantic is what collection.query did:
\* [raised |-> TRUE] or [raised |-> FALSE, neighbours |-> list of [id, distance]];
\* get_raised is whether collection.get raised. Each index call sits in its
\* own try block, and a pass whose call raised adds nothing
search(coll, query, limit, category, semantic, get_raised) ==
    IF category # <<>> /\ Strip(query) = <<>>
    THEN IF get_raised THEN <<>>
         ELSE LET filtered == Prefix(WhereCategory(coll, category), limit)
              IN [ i \in 1..Len(filtered) |->
                     SearchResult(filtered[i], CategoryFilterRelevance, "category_filter") ]
    ELSE IF Strip(query) = <<>> THEN <<>>
    ELSE LET s0 == [results |-> <<>>, seen |-> {}]
             s1 == IF semantic.raised THEN s0
                   ELSE SemanticPass(s0, coll, semantic.neighbours)
             s2 == IF get_raised THEN s1
                   ELSE KeywordPass(s1, Prefix(coll, KeywordScanLimit), query, category)
         IN Prefix(SortByRelevance(s2.results), limit)

\* distances the vector index may report
Distances == {0, 1000, 7000, 7004, 9000}

\* what collection.query(n_results=n, where=category) can answer: the n nearest
\* of the records the filter lets through, nearest first, or an exception
SemanticAnswers(coll, category, n) ==
    LET pool == WhereCategory(coll, category)
        k == Min(n, Len(pool))
    IN { [raised |-> TRUE] }
       \cup { [raised |-> FALSE, neighbours |-> nb] :
                nb \in { x \in [1..k -> [id : Ids(pool), distance : Distances]] :
                           /\ \A i, j \in 1..k : i # j => x[i].id # x[j].id
                           /\ \A i \in 1..(k - 1) : x[i].distance <= x[i + 1].distance } }

\* the queries and limits the caller passes
SearchContents1 == <<"a", "B", "c">>
SearchContents3 == <<"a", " ", "ka1", "ka2">>
SearchContents == { SearchContents1, SearchContents3 }
Queries ==
    UNION { { SubSeq(c, i, j) : i \in 1..Len(c), j \in 1..Len(c) } : c \in SearchContents }
Limits == {1, 3}

Search(query, limit, category) ==
    /\ \E semantic \in SemanticAnswers(collection, category, Min(limit * 2, MaxNeighbours)),
          get_raised \in BOOLEAN :
          ret' = [ op |-> "search", query |-> query, limit |-> limit,
                   category |-> category,
                   semantic |-> semantic, get_raised |-> get_raised,
                   results |-> search(collection, query, limit, category,
                                      semantic, get_raised) ]
    /\ UNCHANGED <<now, collection, memory_archive, feedback, feedback_archived, insights,
                   insights_archived, dream_archives, lora_dataset, fbClock, pc, export>>
    /\ UNCHANGED <<insight_cache, cache_dirty, conversation_history>>

NextSearch ==
    \/ \E content \in SearchContents, category \in {Chat, Dream} : Save(content, category)
    \/ /\ ret.op # "search"
       /\ \E query \in Queries, limit \in Limits, category \in {<<>>, Chat} :
             Search(query, limit, category)

SpecSearch == Init /\ [][NextSearch]_vars

\* search as a function of the store, over stores of three records (more
\* records than the 2 * limit neighbours a search of limit 1 asks for): the
\* stores that save("aBc", chat), save("aBc", dream), save("a ka1ka2", chat)
\* leave when every insert succeeds
RankedStores ==
    { o3 \in UNION { UNION {
          SaveOutcomes([coll |-> o2.coll, clk |-> o2.clk], SearchContents3, Chat, "")
            : o2 \in SaveOutcomes([coll |-> o1.coll, clk |-> o1.clk],
                                  SearchContents1, Dream, "") }
            : o1 \in SaveOutcomes([coll |-> <<>>, clk |-> 0], SearchContents1, Chat, "") }
        : Len(o3.coll) = 3 }

InitRank ==
    /\ \E o \in RankedStores : now = o.clk /\ collection = o.coll
    /\ memory_archive = <<>>
    /\ feedback = <<>>
    /\ feedback_archived = <<>>
    /\ insights = <<>>
    /\ insights_archived = <<>>
    /\ dream_archives = <<>>
    /\ lora_dataset = 0
    /\ fbClock = 0
    /\ pc = [t \in Callers |-> "idle"]
    /\ export = [t \in Callers |-> NoExport]
    /\ ret = [op |-> "init"]
    /\ insight_cache = <<>>
    /\ cache_dirty = TRUE
    /\ conversation_history = <<>>

RankQueries == { <<"c">>, <<"a">> }

NextRank ==
    /\ ret.op # "search"
    /\ \E query \in RankQueries, limit \in Limits, category \in {<<>>, Chat} :
          Search(query, limit, category)

SpecRank == InitRank /\ [][NextRank]_vars

\* search with failing index calls, over a few queries: part of a stored
\* content, text no record holds, and a blank query
DegradeQueries == { <<"a">>, <<"c", "c">>, <<" ">> }

NextDegrade ==
    \/ \E content \in SearchContents : Save(content, Chat)
    \/ /\ ret.op # "search"
       /\ \E query \in DegradeQueries, limit \in Limits, category \in {<<>>, Chat} :
             Search(query, limit, category)

SpecDegrade == Init /\ [][NextDegrade]_vars

\* searches over a store that holds self-observations (save_observation
\* saves under the category "observation")
NextObserve ==
    \/ \E content \in SearchContents, category \in {Chat, Observation} :
          Save(content, category)
    \/ /\ ret.op # "search"
       /\ \E query \in DegradeQueries, limit \in Limits, category \in {<<>>, Observation} :
             Search(query, limit, category)

SpecObserve == Init /\ [][NextObserve]_vars

(***************************************************************************)
(* Properties                                                              *)
(***************************************************************************)
\* caller t's dream() call returns in this step
DreamReturns(t) == pc[t] = "calling" /\ pc'[t] = "idle"

\* caller t's dream() call takes its export in this step
DreamExports(t) == pc[t] = "idle" /\ pc'[t] = "calling"

\* an empty response, or one that starts with "Error" or "API Error"
IsErrorSentinel(response) ==
    \/ response = <<>>
    \/ SubSeq(response, 1, 5) = <<"E", "r", "r", "o", "r">>
    \/ SubSeq(response, 1, 9) = <<"A", "P", "I", " ", "E", "r", "r", "o", "r">>

\* the live records and the logs a failed cycle must leave alone
StoreAndLogs == <<collection, feedback, insights, memory_archive, dream_archives>>

\* C1: a dream() call whose generation call returned an empty response or an
\* error sentinel returns status "failed", and no step of that call changes
\* the live records, the pending feedback log, the insight log, the memory
\* archive log or the dream audit log.
C1_FailedDreamChangesNothing ==
    [][\A t \in Callers :
          /\ DreamExports(t) => StoreAndLogs' = StoreAndLogs
          /\ (DreamReturns(t) /\ IsErrorSentinel(chat(ret'.outcome)))
                => (ret'.status = "failed" /\ StoreAndLogs' = StoreAndLogs)]_vars

\* a dream() call has just failed on an error sentinel, with live records and
\* pending feedback in the store
C1_Witness ==
    /\ ret.op = "dream"
    /\ ret.status = "failed"
    /\ IsErrorSentinel(chat(ret.outcome))
    /\ collection # <<>>
    /\ feedback # <<>>

\* C2: a dream() call whose generation call timed out returns status "failed"
\* and changes nothing: no insight in the insight log or the live store, no
\* feedback archived, no live record removed.
C2_TimeoutFailsWithoutMutation ==
    [][\A t \in Callers :
          (DreamReturns(t) /\ ret'.outcome.kind = "timeout")
             => /\ ret'.status = "failed"
                /\ <<collection, feedback, feedback_archived, insights>>'
                     = <<collection, feedback, feedback_archived, insights>>]_vars

\* C3: after a dream() call that returns "completed", every memory of its
\* export is no longer live and has a memory-archive entry with its content
\* and category.
C3_CompletedDreamArchivesExport ==
    [][\A t \in Callers :
          (DreamReturns(t) /\ ret'.status = "completed")
             => \A i \in 1..Len(export[t].memories) :
                   LET m == export[t].memories[i]
                   IN /\ m.id \notin Ids(collection')
                      /\ \E j \in 1..Len(memory_archive') :
                            /\ memory_archive'[j].id = m.id
                            /\ memory_archive'[j].content = m.content
                            /\ memory_archive'[j].category = m.category]_vars

InSeq(seq, x) == \E i \in 1..Len(seq) : seq[i] = x

\* C4: a completed dream() call leaves the pending feedback log empty, and
\* over any sequence of save_feedback and dream() calls every feedback entry
\* ever submitted is still pending or is in the archived-feedback log.
C4_FeedbackPendingOrArchived ==
    /\ (ret.op = "dream" /\ ret.status = "completed") => feedback = <<>>
    /\ \A e \in 1..fbClock : InSeq(feedback, e) \/ InSeq(feedback_archived, e)

\* C5: no record id is at once in the live index and in the memory archive log.
C5_NeverLiveAndArchived ==
    Ids(collection) \cap ArchivedIds(memory_archive) = {}

\* where a record id stands
LifeState(coll, arch, id) ==
    IF id \in Ids(coll)
    THEN (IF id \in ArchivedIds(arch) THEN "live+archived" ELSE "live")
    ELSE (IF id \in ArchivedIds(arch) THEN "archived" ELSE "absent")

\* C6: every change of where a record stands is live -> archived by archive,
\* archived -> live by restore (the restored record gets a new id, so the old
\* id leaves the archive), live -> gone by batch_delete or archived -> gone by
\* purge.  The creation of a record, and the removals a reset makes, are let
\* through.
C6_OnlyFourTransitions ==
    [][\A id \in Ids(collection) \cup ArchivedIds(memory_archive)
                 \cup Ids(collection') \cup ArchivedIds(memory_archive') :
          LET a == LifeState(collection, memory_archive, id)
              b == LifeState(collection', memory_archive', id)
          IN a # b =>
               \/ a = "absent" /\ b = "live"
               \/ a = "live" /\ b = "archived" /\ ret'.op = "archive_memories"
               \/ a = "archived" /\ b \in {"live", "absent"} /\ ret'.op = "restore_memories"
               \/ a = "live" /\ b = "absent" /\ ret'.op \in {"batch_delete", "dream"}
               \/ a = "archived" /\ b = "absent" /\ ret'.op = "delete_archived_memories"
               \/ b = "absent" /\ ret'.op \in {"reset_all", "reset_everything"}]_vars

\* C7: at most one dream() call is between its export and its return.
C7_OneCycleInFlight ==
    Cardinality({ t \in Callers : pc[t] = "calling" }) <= 1

\* C8: after save(content) and search(q) with q a non-empty part of the stored
\* content, no category and fewer live records than the limit, the record is
\* in the result with match_type semantic or keyword and relevance >= 0.3,
\* whatever the vector index reported.
C8_SavedRecordIsFound ==
    (ret.op = "search" /\ ret.category = <<>> /\ ret.query # <<>>
        /\ ~ret.get_raised
        /\ Len(collection) < ret.limit)
    => \A i \in 1..Len(collection) :
          Contains(collection[i].content, ret.query)
          => \E j \in 1..Len(ret.results) :
                /\ ret.results[j].id = collection[i].id
                /\ ret.results[j].match_type \in {"semantic", "keyword"}
                /\ ret.results[j].relevance >= SemanticFloor

\* C9: restore_memories([0]) on an archive log that holds the one entry of an
\* archived (no longer live) record restores it: a live record has the
\* entry's content and category, the archive log is empty and count() is one
\* more than before the restore.
C9_ArchiveRestoreRoundTrip ==
    [][(/\ ret'.op = "restore_memories"
        /\ Len(memory_archive) = 1
        /\ memory_archive[1].id \notin Ids(collection)
        /\ ret'.restored_count = 1
        /\ ret'.failed = <<>>)
       => /\ \E i \in 1..Len(collection') :
                /\ collection'[i].content = memory_archive[1].content
                /\ collection'[i].category = memory_archive[1].category
          /\ memory_archive' = <<>>
          /\ Len(collection') = Len(collection) + 1]_vars

\* C10: every save that returns raises count() by one, and an
\* archive_memories call lowers count() by its archived_count.
C10_CountFollowsSavesAndArchives ==
    [][/\ (ret'.op = "save" /\ ~ret'.raised)
             => count(collection', <<>>) = count(collection, <<>>) + 1
       /\ ret'.op = "archive_memories"
             => count(collection', <<>>) = count(collection, <<>>) - ret'.archived_count]_vars

\* a save of the application or of the MCP tool server returns an id in this step
SaveReturnsId ==
    \/ ret'.op = "save" /\ ~ret'.raised
    \/ ret'.op = "save_memory" /\ ret'.status = "ok"

\* C11: a save call that returns produces an id that no live record has,
\* also when it falls in the clock tick of an earlier save of the category and
\* whichever of the two processes issued the saves.
C11_SaveIdsAreDistinct ==
    [][SaveReturnsId => ret'.id \notin Ids(collection)]_vars

\* the logs of the store and of the consolidation engine
AllLogs == <<feedback, feedback_archived, insights, insights_archived, memory_archive,
             dream_archives, lora_dataset>>

\* a dream() call starts in this step
DreamStarts == ret'.op \in {"dream", "export_for_dreaming"} /\ pc[ret'.caller] = "idle"

\* C12: a dream() call that starts with no live record and no pending feedback
\* returns "skipped" without reaching the generation call, and leaves the
\* live index and every log unchanged.
C12_NothingToProcessIsSkipped ==
    [][(DreamStarts /\ collection = <<>> /\ feedback = <<>>)
         => /\ ret'.op = "dream"
            /\ ret'.status = "skipped"
            /\ pc' = pc
            /\ collection' = collection
            /\ AllLogs' = AllLogs]_vars

\* a dream() call was skipped on an empty store whose logs hold the outcome of
\* an earlier cycle
C12_Witness ==
    /\ ret.op = "dream"
    /\ ret.status = "skipped"
    /\ collection = <<>>
    /\ feedback = <<>>
    /\ insights # <<>>
    /\ dream_archives # <<>>

\* C13: the prior insights a dream() call exports for its request are the
\* insight log as the previous cycle left it, and the insight log changes only
\* when a cycle completes.
C13_InsightsCarriedForward ==
    [][/\ \A t \in Callers :
             DreamExports(t) => prev_insights(export'[t]) = insights
       /\ insights' # insights
             => \E t \in Callers : DreamReturns(t) /\ ret'.status = "completed"]_vars

\* C14: every insight of a completed cycle is one entry of the insight log
\* and one new live record of category "dream", whatever tag it came with.
C14_InsightsStoredAsDreamRecords ==
    [][\A t \in Callers :
          (DreamReturns(t) /\ ret'.status = "completed")
             => /\ Len(insights') = ret'.insights_generated
                /\ \A i \in 1..Len(insights') :
                      \E j \in 1..Len(collection') :
                         /\ collection'[j].content = insights'[i].insight
                         /\ collection'[j].category = Dream
                         /\ collection'[j].id \notin Ids(collection)]_vars

\* C15: a dream() call whose response is not an error sentinel completes
\* with insights_generated >= 1 entries in the insight log, and when the
\* parser finds no entry the log holds exactly one insight, the trimmed raw
\* response cut to at most 500 characters.
C15_ResponseNeverDiscarded ==
    [][\A t \in Callers :
          DreamReturns(t) =>
             LET response == chat(ret'.outcome)
                 trimmed == Strip(response)
             IN /\ ~IsErrorSentinel(response) => ret'.status = "completed"
                /\ ret'.status = "completed"
                     => /\ ret'.insights_generated >= 1
                        /\ Len(insights') = ret'.insights_generated
                        /\ parse_categorized_insights(response) = <<>>
                             => /\ Len(insights') = 1
                                /\ Len(insights'[1].insight) <= FallbackMaxLen
                                /\ insights'[1].insight
                                     = SubSeq(trimmed, 1, Min(Len(trimmed), FallbackMaxLen))]_vars

\* a cycle has completed on an untagged response of more than 500 characters
\* and its one insight is the first 500 of them
C15_Witness ==
    /\ ret.op = "dream"
    /\ ret.status = "completed"
    /\ Len(chat(ret.outcome)) > FallbackMaxLen
    /\ Len(insights) = 1
    /\ Len(insights[1].insight) = FallbackMaxLen
\* C16: after any sequence of save calls no live record has empty content
\* (a save of empty or whitespace-only content is rejected and stores nothing).
C16_EmptyContentIsRejected ==
    \A i \in 1..Len(collection) : collection[i].content # <<>>

\* C17: a save of valid non-empty content (every content of SpecStore is
\* such) never raises to its caller, also when the insert into the vector
\* index fails.
C17_SaveNeverRaises ==
    ret.op = "save" => ~ret.raised

\* C18: search always returns a list: the empty list when the index is
\* empty, and when an index call (query in the semantic pass, get in the
\* keyword pass or in the category listing) fails, what the other pass alone
\* produced, sorted and cut to the limit; nothing when both fail.
C18_SearchDegradesToOtherPass ==
    ret.op = "search" =>
       LET s0 == [results |-> <<>>, seen |-> {}]
           semantic_alone ==
               IF ret.semantic.raised THEN <<>>
               ELSE SemanticPass(s0, collection, ret.semantic.neighbours).results
           keyword_alone ==
               KeywordPass(s0, Prefix(collection, KeywordScanLimit),
                           ret.query, ret.category).results
           top(results) ==
               LET sorted == SortByRelevance(results)
               IN SubSeq(sorted, 1, Min(Len(sorted), ret.limit))
       IN /\ DOMAIN ret.results = 1..Len(ret.results)
          /\ Len(ret.results) <= ret.limit
          /\ collection = <<>> => ret.results = <<>>
          /\ (Strip(ret.query) = <<>> /\ ret.get_raised) => ret.results = <<>>
          /\ Strip(ret.query) # <<>> =>
                /\ (ret.semantic.raised /\ ret.get_raised) => ret.results = <<>>
                /\ (ret.semantic.raised /\ ~ret.get_raised)
                      => ret.results = top(keyword_alone)
                /\ (~ret.semantic.raised /\ ret.get_raised)
                      => ret.results = top(semantic_alone)

\* the semantic pass failed and the keyword pass alone has found a record
C18_Witness ==
    /\ ret.op = "search"
    /\ ret.semantic.raised
    /\ ~ret.get_raised
    /\ ret.results # <<>>
    /\ ret.results[1].match_type = "keyword"

\* C19: after any sequence of save calls, with or without a metadata
\* argument, the category of every live record is one of the declared
\* categories (those of the engine and of the tool server).
C19_CategoryIsDeclared ==
    \A i \in 1..Len(collection) : collection[i].category \in McpCATEGORIES

\* C20: archive_memories handles every id of the batch on its own: the id at
\* position i is archived exactly when it is live, its index call does not
\* raise and no earlier position has archived it; every other position is
\* reported in failed, in order, wherever it stands in the batch; and
\* archived_count + len(failed) = len(ids).
C20_ArchiveIsPerId ==
    [][ret'.op = "archive_memories" =>
         LET ids == ret'.ids
             n == Len(ids)
             done == { i \in 1..n :
                         /\ ids[i] \in Ids(collection)
                         /\ ~ret'.fails[i]
                         /\ \A j \in 1..(i - 1) : ids[j] = ids[i] => ret'.fails[j] }
             notDone[i \in 0..n] ==
                 IF i = 0 THEN <<>>
                 ELSE IF i \in done THEN notDone[i - 1]
                 ELSE Append(notDone[i - 1], ids[i])
         IN /\ ret'.archived_count = Cardinality(done)
            /\ ret'.failed = notDone[n]
            /\ ret'.archived_count + Len(ret'.failed) = n
            /\ Ids(collection') = Ids(collection) \ { ids[i] : i \in done }
            /\ \A i \in done : \E k \in 1..Len(memory_archive') :
                  memory_archive'[k].id = ids[i]]_vars

\* a batch of two whose first id failed and whose second id was archived
C20_Witness ==
    /\ ret.op = "archive_memories"
    /\ Len(ret.ids) = 2
    /\ ret.failed = <<ret.ids[1]>>
    /\ ret.archived_count = 1
    /\ \E k \in 1..Len(memory_archive) : memory_archive[k].id = ret.ids[2]

\* C21: restore_memories reports every index outside 0..len(archive)-1 and
\* every index whose re-save raised in failed, in order, and re-saves the
\* others; the archive log loses exactly the entries that were re-saved and
\* keeps the others in their order; live records are kept and every record
\* that appears comes from a re-saved entry.
C21_RestoreIsPerIndex ==
    [][ret'.op = "restore_memories" =>
         LET idx == ret'.indices
             n == Len(idx)
             arch == memory_archive
             ok == { i \in 1..n : idx[i] >= 0 /\ idx[i] < Len(arch) /\ ~ret'.fails[i] }
             notOk[i \in 0..n] ==
                 IF i = 0 THEN <<>>
                 ELSE IF i \in ok THEN notOk[i - 1]
                 ELSE Append(notOk[i - 1], idx[i])
             restored == { idx[i] : i \in ok }
             kept[k \in 0..Len(arch)] ==
                 IF k = 0 THEN <<>>
                 ELSE IF (k - 1) \in restored THEN kept[k - 1]
                 ELSE Append(kept[k - 1], arch[k])
         IN /\ ret'.restored_count = Cardinality(ok)
            /\ ret'.failed = notOk[n]
            /\ memory_archive' = kept[Len(arch)]
            /\ \A j \in 1..Len(collection) : InSeq(collection', collection[j])
            /\ \A j \in 1..Len(collection') :
                  ~InSeq(collection, collection'[j])
                  => \E i \in ok :
                        /\ collection'[j].content = Strip(arch[idx[i] + 1].content)
                        /\ collection'[j].category = arch[idx[i] + 1].category]_vars

\* a restore of two indices has reported the invalid first one and has
\* restored the second, whose record is live and whose entry has left the log
C21_Witness ==
    /\ ret.op = "restore_memories"
    /\ Len(ret.indices) = 2
    /\ ret.failed = <<ret.indices[1]>>
    /\ ret.indices[1] \notin {0}
    /\ ret.restored_count = 1
    /\ memory_archive = <<>>
    /\ collection # <<>>

\* C22: delete_archived_memories leaves the live index alone and its
\* deleted_count is the number of entries that left the archive log (an index
\* past the end of the log is not counted).
C22_DeletedCountIsEntriesRemoved ==
    [][ret'.op = "delete_archived_memories" =>
         /\ collection' = collection
         /\ ret'.deleted_count = Len(memory_archive) - Len(memory_archive')]_vars

\* C23: batch_delete writes nothing to the memory archive log, removes from
\* the live index every listed id whose delete did not raise (also the ids
\* listed after one whose delete raised), leaves every other live record
\* unchanged and in place, and deleted_count + failed_count = len(ids).
C23_BatchDeleteBypassesArchive ==
    [][ret'.op = "batch_delete" =>
         LET ids == ret'.ids
             n == Len(ids)
             deleted == { i \in 1..n : ~ret'.fails[i] }
             gone == { ids[i] : i \in deleted }
         IN /\ memory_archive' = memory_archive
            /\ ret'.deleted_count = Cardinality(deleted)
            /\ ret'.failed_count = n - Cardinality(deleted)
            /\ ret'.deleted_count + ret'.failed_count = n
            /\ collection' = SelectSeq(collection, LAMBDA r : r.id \notin gone)]_vars

\* a batch of two live ids: the delete of the first raised and it is still
\* live, the second is gone, and the archive log holds nothing
C23_Witness ==
    /\ ret.op = "batch_delete"
    /\ Len(ret.ids) = 2
    /\ ret.fails = <<TRUE, FALSE>>
    /\ ret.deleted_count = 1
    /\ ret.failed_count = 1
    /\ ret.ids[1] \in Ids(collection)
    /\ ret.ids[2] \notin Ids(collection) \cup ArchivedIds(memory_archive)
    /\ ret.ids[2] # UnknownId

\* position of the entry of a record in a list of results (0 if none)
PositionOf(results, id) ==
    IF \E k \in 1..Len(results) : results[k].id = id
    THEN CHOOSE k \in 1..Len(results) : results[k].id = id
    ELSE 0

\* C24: for a non-empty query the list search returns has at most limit
\* entries, is in non-increasing order of relevance, and orders (and cuts)
\* entries of equal relevance by discovery: the entries of the semantic pass
\* in the order of the neighbours, then the entries of the keyword pass.
C24_SortedStableAndCut ==
    (ret.op = "search" /\ Strip(ret.query) # <<>>) =>
       LET s0 == [results |-> <<>>, seen |-> {}]
           s1 == IF ret.semantic.raised THEN s0
                 ELSE SemanticPass(s0, collection, ret.semantic.neighbours)
           found == IF ret.get_raised THEN s1.results
                    ELSE KeywordPass(s1, Prefix(collection, KeywordScanLimit),
                                     ret.query, ret.category).results
           res == ret.results
           pos(e) == PositionOf(found, e.id)
           before(a, b) ==
               \/ a.relevance > b.relevance
               \/ a.relevance = b.relevance /\ pos(a) < pos(b)
       IN /\ Len(res) = Min(ret.limit, Len(found))
          /\ \A i \in 1..Len(res) : InSeq(found, res[i])
          /\ \A i, j \in 1..Len(res) : i < j => before(res[i], res[j])
          /\ \A i \in 1..Len(res), k \in 1..Len(found) :
                ~InSeq(res, found[k]) => before(res[i], found[k])

\* a search of limit 1 has found a semantic and a keyword entry of equal
\* relevance and has returned the semantic one
C24_Witness ==
    /\ ret.op = "search"
    /\ ret.limit = 1
    /\ ~ret.semantic.raised
    /\ ~ret.get_raised
    /\ Len(ret.results) = 1
    /\ ret.results[1].match_type = "semantic"
    /\ \E i \in 1..Len(collection) :
          /\ collection[i].id # ret.results[1].id
          /\ \A k \in 1..Len(ret.semantic.neighbours) :
                ret.semantic.neighbours[k].id # collection[i].id
          /\ MatchScore(collection[i], ret.query) = ret.results[1].relevance

\* C25: no record id appears twice in a search result, and a record the
\* semantic pass accepted appears only with its semantic entry: match_type
\* "semantic" and the rounded relevance of its distance, whatever the
\* keyword pass would have scored it.
C25_OneEntryPerRecord ==
    ret.op = "search" =>
       /\ \A i, j \in 1..Len(ret.results) :
             i # j => ret.results[i].id # ret.results[j].id
       /\ (Strip(ret.query) # <<>> /\ ~ret.semantic.raised) =>
             \A k \in 1..Len(ret.semantic.neighbours) :
                LET n == ret.semantic.neighbours[k]
                IN One - n.distance >= SemanticFloor =>
                      \A i \in 1..Len(ret.results) :
                         ret.results[i].id = n.id =>
                            /\ ret.results[i].match_type = "semantic"
                            /\ ret.results[i].relevance = Round3(One - n.distance)

\* a result holds the semantic entry, at relevance 0.3, of a record that
\* the keyword pass would have scored higher
C25_Witness ==
    /\ ret.op = "search"
    /\ ~ret.get_raised
    /\ \E i \in 1..Len(ret.results) :
          /\ ret.results[i].match_type = "semantic"
          /\ ret.results[i].relevance = SemanticFloor
          /\ MatchScore(Record(collection, ret.results[i].id), ret.query)
                > ret.results[i].relevance

\* C26: a neighbour at distance d is kept by the semantic pass exactly when
\* max(0, 1 - d) >= 0.3, the test being made before the rounding: when the
\* limit cuts nothing, a neighbour at relevance 0.3 or more has its semantic
\* entry in the result, a neighbour below 0.3 (also one that rounds to 0.3)
\* has none, and every semantic entry has relevance >= 0.3.
C26_SemanticFloorIsInclusive ==
    (ret.op = "search" /\ Strip(ret.query) # <<>> /\ ~ret.semantic.raised) =>
       /\ \A i \in 1..Len(ret.results) :
             ret.results[i].match_type = "semantic"
             => ret.results[i].relevance >= SemanticFloor
       /\ \A k \in 1..Len(ret.semantic.neighbours) :
             LET n == ret.semantic.neighbours[k]
                 relevance == IF One - n.distance > 0 THEN One - n.distance ELSE 0
                 entry == [ id |-> n.id, match_type |-> "semantic",
                            relevance |-> Round3(relevance) ]
                 has == \E i \in 1..Len(ret.results) :
                           /\ ret.results[i].id = entry.id
                           /\ ret.results[i].match_type = entry.match_type
                           /\ ret.results[i].relevance = entry.relevance
             IN /\ (relevance >= SemanticFloor /\ ret.limit >= Len(collection)) => has
                /\ relevance < SemanticFloor =>
                      ~\E i \in 1..Len(ret.results) :
                         ret.results[i].id = n.id /\ ret.results[i].match_type = "semantic"

\* one neighbour was at relevance exactly 0.3 and is in the result, another
\* was at 0.2996 and is not
C26_Witness ==
    /\ ret.op = "search"
    /\ Strip(ret.query) # <<>>
    /\ ~ret.semantic.raised
    /\ \E k, m \in 1..Len(ret.semantic.neighbours) :
          /\ One - ret.semantic.neighbours[k].distance = SemanticFloor
          /\ \E i \in 1..Len(ret.results) :
                /\ ret.results[i].id = ret.semantic.neighbours[k].id
                /\ ret.results[i].match_type = "semantic"
          /\ One - ret.semantic.neighbours[m].distance < SemanticFloor
          /\ Round3(One - ret.semantic.neighbours[m].distance) = SemanticFloor
          /\ \A i \in 1..Len(ret.results) :
                ret.results[i].id # ret.semantic.neighbours[m].id

\* C27: a search with a non-empty query and no category argument returns
\* no record of the category "observation".
C27_GeneralSearchSkipsObservations ==
    (ret.op = "search" /\ Strip(ret.query) # <<>> /\ ret.category = <<>>) =>
       \A i \in 1..Len(ret.results) : ret.results[i].category # Observation

\* the content of a "[SAVE] content" marker line, <<>> when the line is none
SaveLineContent(line) ==
    IF StartsWith(Strip(line), SAVE_MARKER)
    THEN Strip(SubSeq(Strip(line), Len(SAVE_MARKER) + 1, Len(Strip(line))))
    ELSE <<>>

\* C28: every "[SAVE] content" line of the assistant text, wherever it
\* stands, has its content in the saves list, and no line of the response
\* text returned to the user is such a marker line.
C28_SaveMarkersExtractedAnywhere ==
    ret.op = "parse" =>
       /\ \A i \in 1..Len(SplitLines(ret.raw)) :
             SaveLineContent(SplitLines(ret.raw)[i]) # <<>>
             => InSeq(ret.saves, SaveLineContent(SplitLines(ret.raw)[i]))
       /\ \A i \in 1..Len(SplitLines(ret.response)) :
             SaveLineContent(SplitLines(ret.response)[i]) = <<>>

\* the entry a line of a consolidation response stands for: a tagged entry
\* for "[tag] content", an untagged one (category <<>>) for a bullet or
\* numbered line whose trimmed remainder has at least 5 characters, none
\* (<<>>) for any other line
BulletRemainder(line) ==
    IF StartsWith(line, <<"-", " ">>) THEN Strip(SubSeq(line, 3, Len(line)))
    ELSE IF Len(line) >= 2 /\ line[1] \in Digits /\ line[2] \in {".", ")"}
    THEN Strip(SubSeq(line, 3, Len(line)))
    ELSE <<>>

ExpectedEntry(raw_line) ==
    LET line == Strip(raw_line)
        close == IndexOf(line, "]")
    IN IF line # <<>> /\ Head(line) = "[" /\ close > 0
          /\ Strip(SubSeq(line, 2, close - 1)) # <<>>
          /\ Strip(SubSeq(line, close + 1, Len(line))) # <<>>
       THEN <<[ category |-> Strip(SubSeq(line, 2, close - 1)),
                content |-> Strip(SubSeq(line, close + 1, Len(line))) ]>>
       ELSE IF Len(BulletRemainder(line)) >= 5
       THEN <<[category |-> <<>>, content |-> BulletRemainder(line)]>>
       ELSE <<>>

\* C29: the insight parser of the consolidation engine yields, line by
\* line and in order, one tagged entry for every "[tag] content" line, one
\* untagged entry for every bullet or numbered line whose trimmed remainder
\* has at least 5 characters, and nothing for any other line.
C29_TagsAndBulletsAccepted ==
    ret.op = "parse_categorized_insights" =>
       LET lines == SplitLines(Strip(ret.response))
           expected[i \in 0..Len(lines)] ==
               IF i = 0 THEN <<>> ELSE expected[i - 1] \o ExpectedEntry(lines[i])
       IN ret.parsed = expected[Len(lines)]

\* C30: the keywords cached on a record do not depend on the process that
\* saved it: a record saved by the application and a record the tool server
\* saved from the same text carry the same keyword list.
C30_KeywordsSameInBothProcesses ==
    \A i, j \in 1..Len(collection) :
       (/\ collection[i].source = ""
        /\ collection[j].source = "mcp_tool"
        /\ collection[j].content = YoinPrefix \o collection[i].content)
       => collection[i].keywords = collection[j].keywords

\* C31: archiving never loses a record. After every number k of ids of an
\* archive batch, also when the index call of the k-th id has raised (the
\* state between its append and its delete), every id of the batch that was
\* live before the call is in the live index or in the archive log; and so
\* it is when the call returns.
C31_ArchiveNeverLosesARecord ==
    [][ret'.op = "archive_memories" =>
         LET ids == ret'.ids
             n == Len(ids)
             named == { ids[i] : i \in 1..n } \cap Ids(collection)
             after(k, raised) ==
                 archive_memories(collection, memory_archive, SubSeq(ids, 1, k),
                                  [i \in 1..k |-> IF i = k THEN raised ELSE ret'.fails[i]])
         IN /\ named \subseteq Ids(collection') \cup ArchivedIds(memory_archive')
            /\ \A k \in 1..n, raised \in BOOLEAN :
                  named \subseteq Ids(after(k, raised).coll)
                                     \cup ArchivedIds(after(k, raised).arch)]_vars

\* the index call of a live id raised after its entry was appended: the
\* call reports the id as failed and the record is still live
C31_Witness ==
    /\ ret.op = "archive_memories"
    /\ ret.fails[1]
    /\ ret.failed = <<ret.ids[1]>>
    /\ ret.ids[1] \in Ids(collection)
    /\ ret.ids[1] \in ArchivedIds(memory_archive)

(***************************************************************************)
(* The insight log: save_observation and archive_insights                  *)
(***************************************************************************)
\* most entries the active insight log holds in the insight-log specification
MaxInsights == 2

\* a replacement of the active log that skips the append to the archived log
archive_insightsReplaceOnly(active, archived, new) ==
    [ active |-> new, archived |-> archived ]

\* archive_insights: every entry of the active log is appended to the archived
\* log, then the active log is rewritten with the new entries
archive_insights(active, archived, new) ==
    [ active |-> new,
      archived |-> IF active # <<>> THEN archived \o active ELSE archived ]

\* save_observation: save under the observation category, then append one entry
\* to the active log; a raising save leaves the log as it was
SaveObservation(content, source) ==
    /\ Len(collection) < MaxLive
    /\ Len(insights) < MaxInsights
    /\ \E o \in SaveOutcomes([coll |-> collection, clk |-> now], content, Observation, source) :
          /\ collection' = o.coll
          /\ \E c \in ClockReadings(o.clk) :
                /\ now' = c
                /\ insights' = IF o.ok
                               THEN Append(insights, [ timestamp |-> c,
                                                       observation |-> content,
                                                       source |-> source ])
                               ELSE insights
          /\ ret' = [ op |-> "save_observation", raised |-> ~o.ok, id |-> o.id,
                      content |-> content, source |-> source ]
          /\ cache_dirty' = (o.ok \/ cache_dirty)
    /\ UNCHANGED <<insight_cache, conversation_history>>
    /\ UNCHANGED <<memory_archive, feedback, feedback_archived, insights_archived,
                   dream_archives, lora_dataset, fbClock, pc, export>>

\* the lists of new entries a caller hands to archive_insights
NewInsights ==
    LET e(cat, txt) == [ category |-> cat, insight |-> txt, source |-> "dreaming" ]
    IN { <<>>, << e(Insight, <<"a">>) >>, << e(Insight, <<"b">>), e(Exchange, <<"a">>) >> }

ArchiveInsights(new) ==
    /\ Len(insights_archived) + Len(insights) <= MaxInsights
    /\ LET r == archive_insights(insights, insights_archived, new)
       IN /\ insights' = r.active
          /\ insights_archived' = r.archived
    /\ ret' = [ op |-> "archive_insights", new |-> new ]
    /\ UNCHANGED <<now, collection, memory_archive, feedback, feedback_archived,
                   dream_archives, lora_dataset, fbClock, pc, export>>
    /\ cache_dirty' = TRUE
    /\ UNCHANGED <<insight_cache, conversation_history>>

NextInsightLog ==
    \/ \E content \in Contents, source \in {"response", "manual"} :
          SaveObservation(content, source)
    \/ \E new \in NewInsights : ArchiveInsights(new)

SpecInsightLog == Init /\ [][NextInsightLog]_vars

\* how many times entry e occurs in a log
Occurrences(log, e) == Cardinality({ i \in 1..Len(log) : log[i] = e })

\* C32: archive_insights(new) appends the whole active log, in order, to the
\* archived log and leaves exactly the entries of new, in order, in the active
\* log; over save_observation and archive_insights calls every entry written to
\* the log stays in the active or the archived log, as often as it was written.
C32_InsightsActiveOrArchived ==
    [][LET entries == { insights[i] : i \in 1..Len(insights) }
                      \cup { insights_archived[i] : i \in 1..Len(insights_archived) }
       IN /\ ret'.op = "archive_insights"
               => /\ insights' = ret'.new
                  /\ insights_archived' = insights_archived \o insights
          /\ (ret'.op = "save_observation" /\ ~ret'.raised)
               => /\ Len(insights') = Len(insights) + 1
                  /\ insights'[Len(insights')].observation = ret'.content
                  /\ insights_archived' = insights_archived
          /\ \A e \in entries :
                Occurrences(insights', e) + Occurrences(insights_archived', e)
                   >= Occurrences(insights, e) + Occurrences(insights_archived, e)]_vars

C32_Witness ==
    /\ ret.op = "archive_insights"
    /\ Len(ret.new) = 2
    /\ insights = ret.new
    /\ \E i \in 1..Len(insights_archived) : insights_archived[i].source = "response"

(***************************************************************************)
(* DreamingEngine.get_stats                                                *)
(***************************************************************************)
\* the sum of the numbers of a sequence
RECURSIVE Sum(_)
Sum(numbers) == IF numbers = <<>> THEN 0 ELSE numbers[1] + Sum(Tail(numbers))

\* a get_stats that adds up the insights of each cycle instead of its memories
get_statsSumsInsights(archives) ==
    [ dream_cycles |-> Len(archives),
      total_archived_memories |-> Sum([i \in 1..Len(archives) |-> archives[i].insights_generated]) ]

\* get_stats: one cycle per line of the audit log, and the sum of the lines'
\* memories_processed
get_stats(archives) ==
    [ dream_cycles |-> Len(archives),
      total_archived_memories |-> Sum([i \in 1..Len(archives) |-> archives[i].memories_processed]) ]

DEFAULT_SEARCH_RELEVANCE_THRESHOLD == 8500

\* C34: the fixed relevance of a category-only result (match_type
\* "category_filter") is at least the default acceptance threshold, so the
\* threshold applied to ranked results would reject no entry of a category
\* listing.
C34_CategoryListingMeetsThreshold ==
    ret.op = "search" =>
       \A i \in 1..Len(ret.results) :
          ret.results[i].match_type = "category_filter"
             => ret.results[i].relevance >= DEFAULT_SEARCH_RELEVANCE_THRESHOLD

(***************************************************************************)
(* Saves of both processes between the export and the sweep of one cycle   *)
(***************************************************************************)
NextSweep ==
    \/ \E content \in Contents : Save(content, Chat)
    \/ \E content \in Contents : McpSaveMemory(content, Chat)
    \/ DreamExport(1)
    \/ \E outcome \in ChatOutcomes : DreamFinish(1, outcome)

SpecSweep == Init /\ [][NextSweep]_vars

\* live record r is one of the records of the export snapshot
InSnapshot(memories, r) ==
    \E i \in 1..Len(memories) :
       /\ memories[i].id = r.id
       /\ memories[i].content = r.content
       /\ memories[i].created_at = r.created_at

\* C35: a cycle that completes removes from the live index only ids of its own
\* export snapshot: every record that was saved after the export, by a save of
\* the application or of the MCP tool server, is still live when the cycle
\* returns, and so is every record the cycle's own insight saves stored.
C35_SweepTakesOnlyTheSnapshot ==
    [][\A t \in Callers :
          (DreamReturns(t) /\ ret'.status = "completed") =>
             LET memories == export[t].memories
                 snapshot == { memories[i].id : i \in 1..Len(memories) }
                 kept == SelectSeq(memories, LAMBDA m : m.category # Voluntary)
                 swept == [ i \in 1..Len(kept) |-> kept[i].id ]
                 parsed == [ i \in 1..Len(insights') |->
                               [ category |-> insights'[i].category,
                                 content |-> insights'[i].insight ] ]
             IN /\ Ids(collection) \ Ids(collection') \subseteq snapshot
                /\ \A i \in 1..Len(collection) :
                      ~InSnapshot(memories, collection[i])
                         => \E j \in 1..Len(collection') : collection'[j] = collection[i]
                /\ \A s \in SaveInsights([coll |-> collection, clk |-> now], parsed),
                      fails \in Failures(Len(swept)) :
                      (s.clk = now' /\ batch_delete(s.coll, swept, fails).coll = collection')
                         => \A j \in 1..Len(s.coll) :
                               s.coll[j].id \notin Ids(collection)
                                  => \E k \in 1..Len(collection') :
                                        collection'[k] = s.coll[j]]_vars

\* a cycle has completed whose snapshot held one record, after a save of the
\* MCP tool server that came between its export and its sweep: the exported
\* record is gone, the later record and a stored insight are live
C35_Witness ==
    /\ ret.op = "dream"
    /\ ret.status = "completed"
    /\ ret.memories_processed = 1
    /\ ret.memories_deleted = 1
    /\ \E i \in 1..Len(collection) : collection[i].source = "mcp_tool"
    /\ \E i \in 1..Len(collection) : collection[i].source = "dreaming"
    /\ \A i \in 1..Len(collection) : collection[i].source # ""

\* C36: a feedback entry submitted after the export of a cycle and before its
\* archive_feedback step is not consumed by that cycle: when the cycle
\* completes the entry is still in the pending feedback log, and not in the
\* archived one.
C36_LateFeedbackStaysPending ==
    [][\A t \in Callers :
          (DreamReturns(t) /\ ret'.status = "completed") =>
             \A i \in 1..Len(feedback) :
                ~InSeq(export[t].feedback, feedback[i])
                   => /\ InSeq(feedback', feedback[i])
                      /\ ~InSeq(feedback_archived', feedback[i])]_vars

\* C37: restore_memories conserves records for every index list, repeated
\* indices included: the live records it adds, the entries it removes from the
\* archive log and restored_count are the same number.
C37_RestoreConservesRecords ==
    [][ret'.op = "restore_memories" =>
          /\ Len(collection') - Len(collection) = ret'.restored_count
          /\ Len(memory_archive) - Len(memory_archive') = ret'.restored_count]_vars

(***************************************************************************)
(* The insight cache of one UnifiedMemory                                  *)
(***************************************************************************)
\* cache[-limit:] of a Python list: the last limit entries for limit >= 1 (all
\* of them when there are fewer), and the whole list for limit = 0, since
\* -0 is 0
LastSlice(cache, limit) ==
    IF limit = 0 \/ limit >= Len(cache) THEN cache
    ELSE SubSeq(cache, Len(cache) - limit + 1, Len(cache))

\* get_insights: a dirty cache is read again from the log first
get_insights(cache, dirty, log, limit) ==
    LET fresh == IF dirty THEN log ELSE cache
    IN [ cache |-> fresh, result |-> LastSlice(fresh, limit) ]

\* the limits handed to get_insights
InsightLimits == {0, 1, 2}

GetInsights(limit) ==
    /\ LET r == get_insights(insight_cache, cache_dirty, insights, limit)
       IN /\ insight_cache' = r.cache
          /\ ret' = [op |-> "get_insights", limit |-> limit, result |-> r.result]
    /\ cache_dirty' = FALSE
    /\ UNCHANGED <<now, collection, memory_archive, feedback, feedback_archived, insights,
                   insights_archived, dream_archives, lora_dataset, fbClock, pc, export,
                   conversation_history>>

NextInsightCache ==
    \/ \E content \in Contents : SaveObservation(content, "response")
    \/ \E new \in NewInsights : ArchiveInsights(new)
    \/ ret.op # "get_insights" /\ \E limit \in InsightLimits : GetInsights(limit)
    \/ insights # <<>> /\ ResetAll
    \/ insights_archived # <<>> /\ ResetEverything

SpecInsightCache == Init /\ [][NextInsightCache]_vars

\* the last n entries of the log, all of them when it holds fewer
LastEntries(log, n) ==
    [ i \in 1..(IF n < Len(log) THEN n ELSE Len(log)) |->
        log[Len(log) - (IF n < Len(log) THEN n ELSE Len(log)) + i] ]

\* the cache is the insight log whenever the dirty flag is down
CacheIsFresh == ~cache_dirty => insight_cache = insights

\* C38: the insight cache is never stale: whenever the dirty flag is false the
\* cache is the insight log, and get_insights(limit) returns exactly the last
\* limit entries that are in the insight log at the time of the call.
C38_InsightCacheNeverStale ==
    /\ CacheIsFresh
    /\ ret.op = "get_insights" => ret.result = LastEntries(insights, ret.limit)

(***************************************************************************)
(* AwarenessEngine.send_message                                            *)
(***************************************************************************)
\* most entries kept in the conversation history
HistoryLimit == 20

\* the keys of the dict ResponseParser.parse returns
ParsedKeys == {"response", "insights", "saves", "raw"}

\* the loop over parsed["saves"]: every final [coll, clk]; a save that raises
\* is logged and the loop goes on
RECURSIVE SaveChatMemories(_, _)
SaveChatMemories(st, saves) ==
    IF saves = <<>> THEN {st}
    ELSE UNION { SaveChatMemories([coll |-> o.coll, clk |-> o.clk], Tail(saves))
                 : o \in SaveOutcomes(st, Head(saves), Chat, "") }

\* one chat turn after the generator has answered with raw_response: the
\* parse, the loop over parsed["observations"], the loop over parsed["saves"],
\* the history update. A key the parsed dict does not have raises KeyError
\* outside every try block, and the turn ends there.
SendMessage(user_input, raw_response) ==
    LET parsed == parse(raw_response)
    IN IF "observations" \notin ParsedKeys
       THEN /\ ret' = [ op |-> "send_message", raised |-> TRUE, raw |-> raw_response,
                        user_input |-> user_input ]
            /\ UNCHANGED <<now, collection, memory_archive, feedback, feedback_archived,
                           insights, insights_archived, dream_archives, lora_dataset,
                           fbClock, pc, export, insight_cache, cache_dirty,
                           conversation_history>>
       ELSE /\ \E s \in SaveChatMemories([coll |-> collection, clk |-> now], parsed.saves) :
                  /\ collection' = s.coll
                  /\ now' = s.clk
            /\ LET appended == conversation_history
                                  \o << [role |-> "user", content |-> user_input],
                                        [role |-> "assistant", content |-> parsed.response] >>
               IN conversation_history' =
                     IF Len(appended) > HistoryLimit
                     THEN SubSeq(appended, Len(appended) - HistoryLimit + 1, Len(appended))
                     ELSE appended
            /\ ret' = [ op |-> "send_message", raised |-> FALSE, raw |-> raw_response,
                        user_input |-> user_input, response |-> parsed.response ]
            /\ UNCHANGED <<memory_archive, feedback, feedback_archived, insights,
                           insights_archived, dream_archives, lora_dataset, fbClock, pc,
                           export, insight_cache, cache_dirty>>

NextChat ==
    \/ \E content \in Contents : Len(collection) < MaxSaved /\ Save(content, Chat)
    \/ \E raw_response \in RawOutputs : SendMessage(<<"h", "i">>, raw_response)

SpecChat == Init /\ [][NextChat]_vars

\* C39: a chat turn that receives a generator response runs to completion:
\* every voluntary-save item the parser extracted is afterwards the content
\* of a live record of category "chat", the user and the assistant message are
\* the last two entries of the conversation history, which holds at most 20
\* entries, and the response text is returned.
C39_ChatTurnCompletes ==
    [][ret'.op = "send_message" =>
          LET parsed == parse(ret'.raw)
              n == Len(conversation_history')
          IN /\ ~ret'.raised
             /\ ret'.response = parsed.response
             /\ \A i \in 1..Len(parsed.saves) :
                   \E j \in 1..Len(collection') :
                      /\ collection'[j].content = Strip(parsed.saves[i])
                      /\ collection'[j].category = Chat
             /\ n <= HistoryLimit
             /\ n >= 2
             /\ conversation_history'[n - 1] = [role |-> "user", content |-> ret'.user_input]
             /\ conversation_history'[n] = [role |-> "assistant", content |-> parsed.response]]_vars
====
